---- MODULE Spec2Model ----
(***************************************************************************)
(* The streaming relay of the call-center voice agent                      *)
(* (VoiceLiveStreamingHandler) with the tasks that drive it.               *)
(*                                                                         *)
(* asyncio runs one task at a time and switches only where a task          *)
(* suspends.  The variable running names the task that is executing        *)
(* between two suspension points (0: the event loop is choosing).  Every   *)
(* await of an I/O call (connect, get_token, send, close, a callback, a    *)
(* storage call) is a suspension point; an uncontended lock, a non-empty   *)
(* queue and a finished task are awaited without suspending.               *)
(***************************************************************************)
EXTENDS Naturals, Integers, Sequences, FiniteSets, TLC

\* ------------------------------------------------------------------ bounds
MaxConn == 2        \* transports the upstream service accepts in one run
MaxCalls == 3       \* start()/close() calls the harness tasks make
MaxMsgs == 2        \* audio messages handed to send_pcm16 / send_audio_base64
MaxInbound == 2     \* messages the upstream service sends

Tasks == {1, 2}     \* the harness tasks that call start() and close()
Ep == 3             \* the task that runs the twilio_stream endpoint
AllTasks == Tasks \cup {Ep}
Conns == 1..MaxConn
BgIds == 1..MaxInbound   \* one persistence task per inbound message at most

VARIABLES
    \* configuration read in __init__ (persist_ctx: a transcription store is
    \* configured; sms_queue: an SMS queue producer is configured)
    api_key, client_id, enable_responses, persist_ctx, handlers, sms_queue,
    \* VoiceLiveStreamingHandler fields
    ws, sender_task, receiver_task, background_tasks, send_queue,
    connection_lock, close_lock,
    \* the tasks of the event loop
    running, pc, local, snd, rcv, bg,
    \* the upstream service and its transports
    conn, inbox, wire,
    \* what happened so far
    outcome, calls, accepted, lost, events, delivered, attempts, closes, quiesced,
    \* the Stream Context of the relay, the Twilio adapter and its transport
    ctx, tw, tel, sunk, sent, stream, last,
    \* the ambient mixer
    \* (built: the preset name and the asset the constructor was given, and
    \* whether it raised;
    \* clip: the last _soft_clip call, its array and what it returned)
    built, preset, noise_buffer, noise_position, ambient_gain, noise_out, mixer_ret,
    mixer_stuck, clip,
    \* the outbound SMS queue and its worker
    \* (msgs: the messages of the queue; worker: the position of the worker in
    \* _handle_message; sms_sends: the Twilio create calls that succeeded;
    \* backoff: the last visibility delay computed for a base and a retry)
    msgs, worker, sms_sends, backoff,
    \* the transcript table of one call and recording, the store operations
    \* in progress, and the SMS jobs the producers enqueued
    table, ops, jobs

cfgVars == <<api_key, client_id, enable_responses, persist_ctx, handlers, sms_queue>>
fieldVars == <<ws, sender_task, receiver_task, background_tasks, send_queue,
               connection_lock, close_lock>>
taskVars == <<running, pc, local, snd, rcv, bg>>
netVars == <<conn, inbox, wire>>
histVars == <<outcome, calls, accepted, lost, events, delivered, attempts, closes, quiesced>>
ctxVars == <<ctx, tw, tel, sunk, sent, stream, last>>
mixVars == <<built, preset, noise_buffer, noise_position, ambient_gain, noise_out, mixer_ret,
             mixer_stuck, clip>>
smsVars == <<msgs, worker, sms_sends, backoff, table, ops, jobs>>
vars == <<cfgVars, fieldVars, taskVars, netVars, histVars, ctxVars, mixVars, smsVars>>

\* ------------------------------------------------------------ small helpers
RunS(c) == 10 + c           \* the token of sender loop c
Range(s) == {s[i] : i \in 1..Len(s)}
Opened == Cardinality({c \in Conns : conn[c] # "unopened"})
LoopDone(l) == l.pc \in {"none", "done"}
AliveS == {c \in Conns : ~LoopDone(snd[c])}
AliveR == {c \in Conns : ~LoopDone(rcv[c])}
AliveBg == {b \in BgIds : ~LoopDone(bg[b])}
InStart(t) == pc[t] \in {"s_lock", "s_cred", "s_connect", "s_cfg", "s_resp"}
InClose(t) == pc[t] \in {"c_lock", "c_loops", "c_bg", "c_wsclose"}
Returned(t) == pc[t] \in {"s_ret", "s_raised", "c_ret"}
\* A task may make a call when it is suspended outside any call, or when a
\* call of its own has just returned and it is still running.
CanCall(t) ==
    /\ calls < MaxCalls
    /\ \/ pc[t] = "idle" /\ running = 0
       \/ Returned(t) /\ running = t

\* session_config() and the initial response request, as written to the wire
SessionUpdate == "session.update"
ResponseCreate == "response.create"
AudioAppend == "input_audio_buffer.append"
\* one frame written to transport c
Frame(c, msg, id, live) == [conn |-> c, msg |-> msg, id |-> id, live |-> live]

\* ----------------------------------------------- the SMS side, when unused
MaxQ == 4           \* messages the queue holds in one run, retries included
MaxAttempt == 2     \* recording attempts of one call
MaxOps == 2         \* store operations that may be in progress together
Attempts == 1..MaxAttempt
OpIds == 1..MaxOps
\* A queue message: parses tells whether from_json accepts its content, of
\* names the message a re-enqueue replaces, why the failure that caused it.
NoStatus == [known |-> FALSE, code |-> 0]
NoMsg == [state |-> "none", parses |-> TRUE, retry |-> 0, delay |-> 0, of |-> 0,
          why |-> NoStatus, taken |-> 0, deletes |-> 0]
NoWorker == [pc |-> "idle", m |-> 0, retry |-> 0, status |-> NoStatus, reason |-> "",
             recorded |-> 0, exit |-> "none", starts |-> 0, received |-> 0]
NoBackoff == [base |-> 0, r |-> 0, delay |-> 0, prev |-> 0]
\* A row of the table that does not exist.
NoRow == [exists |-> FALSE, IsFinal |-> FALSE, SmsRequested |-> FALSE, SmsSent |-> FALSE,
          SmsQueued |-> FALSE, SmsDestination |-> "", SmsSender |-> "", ToNumber |-> "",
          FromNumber |-> "", TranscriptBlobUrl |-> "", SmsMessageSid |-> ""]
\* A store operation: the attempt it is about, the rows it has read, the
\* rows it has still to patch, what it returned, the To and From of the
\* request, and how many operations ran in its place before.
NoStoreOp == [kind |-> "none", pc |-> "idle", attempt |-> 0, snap |-> <<>>, todo |-> <<>>,
              ret |-> "none", to |-> "", from |-> "", runs |-> 0]
InitNoSms ==
    /\ msgs = [i \in 1..MaxQ |-> NoMsg]
    /\ worker = NoWorker
    /\ sms_sends = 0
    /\ backoff = NoBackoff
    /\ table = [a \in Attempts |-> NoRow]
    /\ ops = [o \in OpIds |-> NoStoreOp]
    /\ jobs = <<>>

\* ------------------------------------------------------------------- Init
NoLoop == [pc |-> "none", cancel |-> FALSE, ws |-> 0, n |-> 0, cur |-> 0,
           persist |-> FALSE, exit |-> "none", result |-> "none"]
NewLoop(p) == [NoLoop EXCEPT !.pc = p]
\* the locals of a call: the transport start() opened or close() closes, the
\* tasks close() awaits, and whether close() found the relay quiet
NoLocal == [c |-> 0, s |-> 0, r |-> 0, bg |-> {}, quiet |-> FALSE]

InitRelay ==
    /\ ws = 0
    /\ sender_task = 0
    /\ receiver_task = 0
    /\ background_tasks = {}
    /\ send_queue = <<>>
    /\ connection_lock = 0
    /\ close_lock = 0
    /\ running = 0
    /\ pc = [t \in AllTasks |-> "idle"]
    /\ local = [t \in AllTasks |-> NoLocal]
    /\ snd = [c \in Conns |-> NoLoop]
    /\ rcv = [c \in Conns |-> NoLoop]
    /\ bg = [b \in BgIds |-> NoLoop]
    /\ conn = [c \in Conns |-> "unopened"]
    /\ inbox = [c \in Conns |-> <<>>]
    /\ wire = <<>>
    /\ outcome = [ok |-> 0, raised |-> 0, tokens |-> 0, waited |-> 0]
    /\ calls = 0
    /\ accepted = 0
    /\ lost = {}
    /\ events = <<>>
    /\ delivered = 0
    /\ attempts = 0
    /\ closes = 0
    /\ quiesced = FALSE

\* ---------------------------------------- values of the Stream Context
\* Python's None for an identifier; None and "" are the falsy identifiers.
None == "<None>"
Falsy(v) == v \in {None, ""}
\* attempt as stored (None or an int) and as passed (None, an int, numeric
\* text, or a value int() rejects)
NoAttempt == [known |-> FALSE, val |-> 0]
Attempt(n) == [known |-> TRUE, val |-> n]
NoneArg == [kind |-> "none", val |-> 0]
IntArg(n) == [kind |-> "int", val |-> n]
StrArg(n) == [kind |-> "str", val |-> n]
BadArg == [kind |-> "bad", val |-> 0]
AsArg(a) == IF a.known THEN IntArg(a.val) ELSE NoneArg

NoContext == [call_sid |-> None, stream_sid |-> None, recording_sid |-> None,
              attempt |-> NoAttempt]
NoArgs == [call_sid |-> None, stream_sid |-> None, recording_sid |-> None,
           attempt |-> NoneArg]

\* a frame of the telephony transport
TwFrame(kind, callSid, streamSid, payload) ==
    [kind |-> kind, callSid |-> callSid, streamSid |-> streamSid, payload |-> payload]
NoFrame == TwFrame("none", None, None, <<>>)
\* the last operation on the Stream Context or the adapter, with its arguments
\* (again: an update that repeats the update before it)
Last(op, args, frame, text) ==
    [op |-> op, args |-> args, frame |-> frame, text |-> text, again |-> FALSE]
NoOp == Last("none", NoArgs, NoFrame, "")

\* an audio asset: absent, unreadable, or a WAV file that gives so many
\* samples at the working rate
Asset(kind, samples) == [kind |-> kind, samples |-> samples]
NoAsset == Asset("absent", 0)
\* what a mixer call returned: the operation, the size asked for, the cursor
\* it found, the bytes (for a chunk read: the samples) returned and their
\* number, and whether the call raised
Ret(op, asked, out, raised) ==
    [op |-> op, asked |-> asked, at |-> noise_position, got |-> Len(out), out |-> out,
     raised |-> raised]
NoRet == [op |-> "none", asked |-> 0, at |-> 0, got |-> 0, out |-> <<>>, raised |-> FALSE]
NoClip == [dtype |-> "none", audio |-> <<>>, out |-> <<>>]
\* Line 47, in hundredths.
AmbientGain == 8

\* no frame has arrived and no transcript was sent back
InitTelephony ==
    /\ tel = <<>>
    /\ sunk = <<>>
    /\ sent = <<>>
    /\ stream = [open |-> TRUE, why |-> ""]
    /\ last = NoOp
\* AmbientMixer("none"), lines 35-47; the sequence noise_buffer stands for
\* the array, which is None exactly when the preset is "none" (lines 38-41);
\* a constructor that raised has set no field (preset None)
InitNoMixer ==
    /\ built = [name |-> "none", asset |-> NoAsset, raised |-> FALSE]
    /\ preset = "none"
    /\ noise_buffer = <<>>
    /\ noise_position = 0
    /\ ambient_gain = AmbientGain
    /\ noise_out = <<>>
    /\ mixer_ret = NoRet
    /\ mixer_stuck = FALSE
    /\ clip = NoClip
InitIdle == InitTelephony /\ InitNoMixer

\* The call as the relay specifications see it: the context is known from
\* the query arguments, the adapter has seen no frame, no mixer is in use.
InitCall ==
    /\ sms_queue = FALSE
    /\ ctx = [call_sid |-> "C1", stream_sid |-> None, recording_sid |-> "R1",
              attempt |-> Attempt(1)]
    /\ tw = [call_sid |-> None, stream_sid |-> None, recording_sid |-> "R1",
             attempt |-> Attempt(1)]
    /\ InitIdle

AllHandlers == {"user_transcript", "ai_transcript", "audio_chunk", "audio_stop"}

Init ==
    /\ InitRelay
    /\ InitNoSms
    /\ InitCall
    /\ api_key \in BOOLEAN
    /\ client_id \in BOOLEAN
    /\ enable_responses \in BOOLEAN
    /\ persist_ctx = TRUE
    /\ handlers = AllHandlers

\* ------------------------------------------------------------ start()
\* A call returns to its caller, which keeps running.
Return(t, how) ==
    /\ pc' = [pc EXCEPT ![t] = how]
    /\ outcome' = IF how = "s_ret"
                   THEN [outcome EXCEPT !.ok = @ + 1,
                                        !.waited = @ + (IF pc[t] = "s_lock" THEN 1 ELSE 0)]
                   ELSE IF how = "s_raised" THEN [outcome EXCEPT !.raised = @ + 1]
                   ELSE outcome
    /\ running' = t

\* Faulty variant: start() without the early return of lines 140-141.
StartBodyUnguarded(t) ==
    IF client_id
    THEN /\ pc' = [pc EXCEPT ![t] = "s_cred"]
         /\ connection_lock' = t
         /\ running' = 0
         /\ UNCHANGED <<outcome, attempts>>
    ELSE IF api_key
    THEN /\ pc' = [pc EXCEPT ![t] = "s_connect"]
         /\ connection_lock' = t
         /\ running' = 0
         /\ attempts' = attempts + 1
         /\ UNCHANGED outcome
    ELSE /\ Return(t, "s_raised")
         /\ connection_lock' = 0
         /\ UNCHANGED attempts

\* Faulty variant: start() without the ValueError of lines 156-159, so that
\* it connects with no credential at all.
StartBodyNoCredential(t) ==
    IF ws # 0
    THEN /\ Return(t, "s_ret")
         /\ connection_lock' = 0
         /\ UNCHANGED attempts
    ELSE IF client_id
    THEN /\ pc' = [pc EXCEPT ![t] = "s_cred"]
         /\ connection_lock' = t
         /\ running' = 0
         /\ UNCHANGED <<outcome, attempts>>
    ELSE /\ pc' = [pc EXCEPT ![t] = "s_connect"]
         /\ connection_lock' = t
         /\ running' = 0
         /\ attempts' = attempts + 1
         /\ UNCHANGED outcome

\* Lines 140-161, from the lock to the first suspension.
StartBody(t) ==
    IF ws # 0
    THEN /\ Return(t, "s_ret")
         /\ connection_lock' = 0
         /\ UNCHANGED attempts
    ELSE IF client_id
    THEN /\ pc' = [pc EXCEPT ![t] = "s_cred"]
         /\ connection_lock' = t
         /\ running' = 0
         /\ UNCHANGED <<outcome, attempts>>
    ELSE IF api_key
    THEN /\ pc' = [pc EXCEPT ![t] = "s_connect"]
         /\ connection_lock' = t
         /\ running' = 0
         /\ attempts' = attempts + 1
         /\ UNCHANGED outcome
    ELSE /\ Return(t, "s_raised")
         /\ connection_lock' = 0
         /\ UNCHANGED attempts

\* asyncio.Lock: a newcomer takes a free lock only when no task waits for it.
LockFree(lock, waiting) == lock = 0 /\ \A u \in AllTasks : pc[u] # waiting

\* Line 139: start() is entered.
StartEnter(t) ==
    /\ quiesced' = FALSE
    /\ IF LockFree(connection_lock, "s_lock")
       THEN StartBody(t)
       ELSE /\ pc' = [pc EXCEPT ![t] = "s_lock"]
            /\ running' = 0
            /\ UNCHANGED <<connection_lock, outcome, attempts>>
    /\ UNCHANGED <<cfgVars, smsVars, ctxVars, mixVars, ws, sender_task, receiver_task, background_tasks,
                   send_queue, close_lock, local, snd, rcv, bg, netVars,
                   accepted, lost, events, delivered, closes>>

StartCall(t) ==
    /\ CanCall(t)
    /\ calls' = calls + 1
    /\ StartEnter(t)

\* Line 139: the lock is released to a start() that waited for it.
StartLocked(t) ==
    /\ running = 0
    /\ pc[t] = "s_lock"
    /\ connection_lock = 0
    /\ StartBody(t)
    /\ UNCHANGED <<cfgVars, smsVars, ctxVars, mixVars, ws, sender_task, receiver_task, background_tasks,
                   send_queue, close_lock, local, snd, rcv, bg, netVars,
                   calls, accepted, lost, events, delivered, closes, quiesced>>

\* Lines 150-153: get_token returns or raises.
StartToken(t, ok) ==
    /\ running = 0
    /\ pc[t] = "s_cred"
    /\ IF ok
       THEN /\ pc' = [pc EXCEPT ![t] = "s_connect"]
            /\ attempts' = attempts + 1
            /\ outcome' = [outcome EXCEPT !.tokens = @ + 1]
            /\ UNCHANGED <<connection_lock, running>>
       ELSE /\ Return(t, "s_raised")
            /\ connection_lock' = 0
            /\ UNCHANGED attempts
    /\ UNCHANGED <<cfgVars, smsVars, ctxVars, mixVars, ws, sender_task, receiver_task, background_tasks,
                   send_queue, close_lock, local, snd, rcv, bg, netVars,
                   calls, accepted, lost, events, delivered, closes, quiesced>>

\* ws.send(payload) on transport c: the frame is written before the call
\* suspends; on a closed transport it raises.
CanWrite(c) == c # 0 /\ conn[c] = "open"

\* Lines 168-169.
Spawn(c) ==
    /\ sender_task' = c
    /\ receiver_task' = c
    /\ snd' = [snd EXCEPT ![c] = NewLoop("get")]
    /\ rcv' = [rcv EXCEPT ![c] = NewLoop("new")]

\* Line 161 and line 164: ws_connect returns transport c or raises.
StartConnected(t, ok) ==
    /\ running = 0
    /\ pc[t] = "s_connect"
    /\ IF ok
       THEN /\ Opened < MaxConn
            /\ LET c == Opened + 1 IN
               /\ conn' = [conn EXCEPT ![c] = "open"]
               /\ ws' = c
               /\ wire' = Append(wire, Frame(c, SessionUpdate, 0, FALSE))
               /\ local' = [local EXCEPT ![t].c = c]
            /\ pc' = [pc EXCEPT ![t] = "s_cfg"]
            /\ UNCHANGED <<connection_lock, outcome, running>>
       ELSE /\ Return(t, "s_raised")
            /\ connection_lock' = 0
            /\ UNCHANGED <<conn, ws, wire, local>>
    /\ UNCHANGED <<cfgVars, smsVars, ctxVars, mixVars, sender_task, receiver_task, background_tasks,
                   send_queue, close_lock, snd, rcv, bg, inbox,
                   calls, accepted, lost, events, delivered, attempts, closes, quiesced>>

\* Lines 164-169: the send of the session configuration completes or raises.
StartCfgSent(t, ok) ==
    /\ running = 0
    /\ pc[t] = "s_cfg"
    /\ ok \/ conn[local[t].c] = "closed"
    /\ IF ~ok
       THEN /\ Return(t, "s_raised")
            /\ connection_lock' = 0
            /\ UNCHANGED <<sender_task, receiver_task, snd, rcv, wire>>
       ELSE IF enable_responses
       THEN IF CanWrite(ws)
            THEN /\ wire' = Append(wire, Frame(ws, ResponseCreate, 0, FALSE))
                 /\ pc' = [pc EXCEPT ![t] = "s_resp"]
                 /\ UNCHANGED <<connection_lock, outcome, running,
                                sender_task, receiver_task, snd, rcv>>
            ELSE /\ Return(t, "s_raised")
                 /\ connection_lock' = 0
                 /\ UNCHANGED <<sender_task, receiver_task, snd, rcv, wire>>
       ELSE /\ Spawn(local[t].c)
            /\ Return(t, "s_ret")
            /\ connection_lock' = 0
            /\ UNCHANGED wire
    /\ UNCHANGED <<cfgVars, smsVars, ctxVars, mixVars, ws, background_tasks, send_queue, close_lock,
                   local, bg, conn, inbox,
                   calls, accepted, lost, events, delivered, attempts, closes, quiesced>>

\* Lines 166-169: the send of response.create completes or raises.
StartRespSent(t, ok) ==
    /\ running = 0
    /\ pc[t] = "s_resp"
    /\ ok \/ conn[local[t].c] = "closed"
    /\ IF ok
       THEN /\ Spawn(local[t].c)
            /\ Return(t, "s_ret")
       ELSE /\ Return(t, "s_raised")
            /\ UNCHANGED <<sender_task, receiver_task, snd, rcv>>
    /\ connection_lock' = 0
    /\ UNCHANGED <<cfgVars, smsVars, ctxVars, mixVars, ws, background_tasks, send_queue, close_lock,
                   local, bg, netVars,
                   calls, accepted, lost, events, delivered, attempts, closes, quiesced>>

\* The caller of a returned call suspends or ends.
TaskYield(t) ==
    /\ running = t
    /\ Returned(t)
    /\ pc' = [pc EXCEPT ![t] = "idle"]
    /\ running' = 0
    /\ UNCHANGED <<cfgVars, smsVars, ctxVars, mixVars, fieldVars, local, snd, rcv, bg, netVars, histVars>>

\* ------------------------------------------------------------ close()
Quiet ==
    /\ ws = 0
    /\ sender_task = 0
    /\ receiver_task = 0
    /\ background_tasks = {}
    /\ AliveS = {}
    /\ AliveR = {}
    /\ AliveBg = {}

\* task.cancel(): a finished task ignores it.
Cancel(l) == IF LoopDone(l) THEN l ELSE [l EXCEPT !.cancel = TRUE]

\* Lines 175-177, at the lock.
CloseBody(t) ==
    /\ close_lock' = t
    /\ local' = [local EXCEPT ![t] = [c |-> 0, s |-> sender_task, r |-> receiver_task,
                                      bg |-> {}, quiet |-> Quiet]]
    /\ snd' = [c \in Conns |-> IF c = sender_task THEN Cancel(snd[c]) ELSE snd[c]]
    /\ rcv' = [c \in Conns |-> IF c = receiver_task THEN Cancel(rcv[c]) ELSE rcv[c]]
    /\ pc' = [pc EXCEPT ![t] = "c_loops"]
    /\ running' = t

\* Line 174: close() is entered.
CloseEnter(t) ==
    /\ closes' = closes + 1
    /\ IF LockFree(close_lock, "c_lock")
       THEN CloseBody(t)
       ELSE /\ pc' = [pc EXCEPT ![t] = "c_lock"]
            /\ running' = 0
            /\ UNCHANGED <<close_lock, local, snd, rcv>>
    /\ UNCHANGED <<cfgVars, smsVars, ctxVars, mixVars, ws, sender_task, receiver_task, background_tasks,
                   send_queue, connection_lock, bg, netVars,
                   outcome, accepted, lost, events, delivered, attempts, quiesced>>

CloseCall(t) ==
    /\ CanCall(t)
    /\ calls' = calls + 1
    /\ CloseEnter(t)

\* Line 174: the lock is released to a close() that waited for it.
CloseLocked(t) ==
    /\ running = 0
    /\ pc[t] = "c_lock"
    /\ close_lock = 0
    /\ CloseBody(t)
    /\ UNCHANGED <<cfgVars, smsVars, ctxVars, mixVars, ws, sender_task, receiver_task, background_tasks,
                   send_queue, connection_lock, bg, netVars, histVars>>

LoopsJoined(t) ==
    /\ local[t].s # 0 => LoopDone(snd[local[t].s])
    /\ local[t].r # 0 => LoopDone(rcv[local[t].r])
\* Faulty variant: close() cancels the tasks and does not await them.
BgJoinedNoWait(t) == TRUE
BgJoined(t) == \A b \in local[t].bg : LoopDone(bg[b])

\* Lines 178-190: both loops have ended.
CloseJoinLoops(t) ==
    /\ running \in {0, t}
    /\ pc[t] = "c_loops"
    /\ LoopsJoined(t)
    /\ sender_task' = 0
    /\ receiver_task' = 0
    /\ bg' = [b \in BgIds |-> IF b \in background_tasks THEN Cancel(bg[b]) ELSE bg[b]]
    /\ local' = [local EXCEPT ![t].bg = background_tasks]
    /\ pc' = [pc EXCEPT ![t] = "c_bg"]
    /\ running' = t
    /\ UNCHANGED <<cfgVars, smsVars, ctxVars, mixVars, ws, background_tasks, send_queue, connection_lock,
                   close_lock, snd, rcv, netVars, histVars>>

\* Lines 180 and 193: close() awaits a task that has not ended.
CloseSuspend(t) ==
    /\ running = t
    /\ \/ pc[t] = "c_loops" /\ ~LoopsJoined(t)
       \/ pc[t] = "c_bg" /\ ~BgJoined(t)
    /\ running' = 0
    /\ UNCHANGED <<cfgVars, smsVars, ctxVars, mixVars, fieldVars, pc, local, snd, rcv, bg, netVars, histVars>>

\* Lines 204-207: what the drain takes off the queue is never written.
Drained(q) == {[id |-> q[i].id, live |-> q[i].live, why |-> "drain"] : i \in 1..Len(q)}
\* Faulty variant: close() without the drain of lines 205-207.
CloseDrainNothing(q) == q
CloseDrain(q) == <<>>

CloseEnd(t) ==
    /\ lost' = lost \cup Drained(send_queue)
    /\ send_queue' = CloseDrain(send_queue)
    /\ close_lock' = 0
    /\ Return(t, "c_ret")
    /\ quiesced' = TRUE

\* Lines 191-207: the persistence tasks have ended.
CloseJoinBg(t) ==
    /\ running \in {0, t}
    /\ pc[t] = "c_bg"
    /\ BgJoined(t)
    /\ background_tasks' = {}
    /\ IF ws # 0
       THEN /\ conn' = [conn EXCEPT ![ws] = "closed"]
            /\ local' = [local EXCEPT ![t].c = ws]
            /\ pc' = [pc EXCEPT ![t] = "c_wsclose"]
            /\ running' = 0
            /\ UNCHANGED <<send_queue, close_lock, outcome, lost, quiesced>>
       ELSE /\ CloseEnd(t)
            /\ UNCHANGED <<conn, local>>
    /\ UNCHANGED <<cfgVars, smsVars, ctxVars, mixVars, ws, sender_task, receiver_task, connection_lock,
                   snd, rcv, bg, inbox, wire,
                   calls, accepted, events, delivered, attempts, closes>>

\* Lines 201-207: ws.close() has returned.
CloseFinish(t) ==
    /\ running = 0
    /\ pc[t] = "c_wsclose"
    /\ ws' = 0
    /\ CloseEnd(t)
    /\ UNCHANGED <<cfgVars, smsVars, ctxVars, mixVars, sender_task, receiver_task, background_tasks,
                   connection_lock, local, snd, rcv, bg, netVars,
                   calls, accepted, events, delivered, attempts, closes>>

\* ------------------------------------------- send_pcm16, send_audio_base64
Started == ws # 0 /\ conn[ws] = "open" /\ sender_task # 0 /\ ~LoopDone(snd[sender_task])

\* Faulty variant: a queue of one slot, on which put() waits.
QueueFullAtOne(q) == Len(q) >= 1
\* Line 78: asyncio.Queue() has no maximum size; put() never waits.
QueueFull(q) == FALSE

\* Lines 209-221: one message is put on the queue; live records whether the
\* relay was started when it was accepted.
Enqueue ==
    /\ ~QueueFull(send_queue)
    /\ accepted' = accepted + 1
    /\ send_queue' = Append(send_queue, [id |-> accepted + 1, live |-> Started])

EnqueueAudio ==
    /\ running = 0
    /\ Enqueue
    /\ UNCHANGED <<cfgVars, smsVars, ctxVars, mixVars, ws, sender_task, receiver_task,
                   background_tasks, connection_lock, close_lock, taskVars, netVars,
                   outcome, calls, lost, events, delivered, attempts, closes, quiesced>>

\* ------------------------------------------------------------ _sender_loop
\* Line 231: the message the loop takes from the queue.
\* Faulty variants: the loop takes the newest message; the loop leaves the
\* message it took on the queue.
QueueGetLast(q) == q[Len(q)]
QueueRestKeep(q) == q
QueueGet(q) == Head(q)
QueueRest(q) == Tail(q)
Lose(m, why) == [id |-> m.id, live |-> m.live, why |-> why]

\* Lines 231-234, from the queue to the next suspension.
SenderIter(c) ==
    /\ send_queue # <<>>
    /\ \/ running = 0 /\ snd[c].pc = "get" /\ ~snd[c].cancel
       \/ running = RunS(c) /\ snd[c].pc = "top"
    /\ LET m == QueueGet(send_queue) IN
       /\ send_queue' = QueueRest(send_queue)
       /\ IF ws = 0
          THEN /\ lost' = lost \cup {Lose(m, "no_transport")}
               /\ snd' = [snd EXCEPT ![c].pc = "top"]
               /\ running' = RunS(c)
               /\ UNCHANGED wire
          ELSE IF conn[ws] = "open"
          THEN /\ wire' = Append(wire, Frame(ws, AudioAppend, m.id, m.live))
               /\ snd' = [snd EXCEPT ![c].pc = "send", ![c].ws = ws]
               /\ running' = 0
               /\ UNCHANGED lost
          ELSE /\ lost' = lost \cup {Lose(m, "write_failed")}
               /\ snd' = [snd EXCEPT ![c].pc = "done", ![c].exit = "error"]
               /\ running' = 0
               /\ UNCHANGED wire
    /\ UNCHANGED <<cfgVars, smsVars, ctxVars, mixVars, ws, sender_task, receiver_task, background_tasks,
                   connection_lock, close_lock, pc, local, rcv, bg, conn, inbox,
                   outcome, calls, accepted, events, delivered, attempts, closes, quiesced>>

\* Line 231: the queue is empty, the loop waits.
SenderBlock(c) ==
    /\ running = RunS(c)
    /\ snd[c].pc = "top"
    /\ send_queue = <<>>
    /\ snd' = [snd EXCEPT ![c].pc = "get"]
    /\ running' = 0
    /\ UNCHANGED <<cfgVars, smsVars, ctxVars, mixVars, fieldVars, pc, local, rcv, bg, netVars, histVars>>

\* Lines 233-238: ws.send returns, or raises on a transport that closed.
SenderSent(c, ok) ==
    /\ running = 0
    /\ snd[c].pc = "send"
    /\ ~snd[c].cancel
    /\ ok \/ conn[snd[c].ws] = "closed"
    /\ IF ok
       THEN /\ snd' = [snd EXCEPT ![c].pc = "top"]
            /\ running' = RunS(c)
       ELSE /\ snd' = [snd EXCEPT ![c].pc = "done", ![c].exit = "error"]
            /\ running' = 0
    /\ UNCHANGED <<cfgVars, smsVars, ctxVars, mixVars, fieldVars, pc, local, rcv, bg, netVars, histVars>>

\* Lines 235-236.
SenderCancelled(c) ==
    /\ running = 0
    /\ snd[c].pc \in {"get", "send"}
    /\ snd[c].cancel
    /\ snd' = [snd EXCEPT ![c].pc = "done", ![c].exit = "cancelled"]
    /\ UNCHANGED <<cfgVars, smsVars, ctxVars, mixVars, fieldVars, running, pc, local, rcv, bg, netVars, histVars>>

\* ------------------------------------------------ inbound upstream messages
\* Base64 text is a sequence of 6-bit symbols; Pad is "=".
Pad == 64

B64Ok(s) == Len(s) % 4 = 0

B64Group(g) ==
    LET p == Cardinality({i \in 1..4 : g[i] = Pad})
        v(i) == IF g[i] = Pad THEN 0 ELSE g[i]
        n == v(1) * 262144 + v(2) * 4096 + v(3) * 64 + v(4)
        bytes == <<n \div 65536, (n \div 256) % 256, n % 256>>
    IN SubSeq(bytes, 1, 3 - p)

RECURSIVE B64Decode(_)
B64Decode(s) ==
    IF Len(s) = 0 THEN <<>>
    ELSE B64Group(SubSeq(s, 1, 4)) \o B64Decode(SubSeq(s, 5, Len(s)))

\* The event types _receiver_loop tells apart (lines 246-271).
SessionCreated == "session.created"
BufferCleared == "input_audio_buffer.cleared"
SpeechStarted == "input_audio_buffer.speech_started"
UserDone == "conversation.item.input_audio_transcription.completed"
UserFailed == "conversation.item.input_audio_transcription.failed"
AiDone == "response.audio_transcript.done"
AudioDelta == "response.audio.delta"
ErrorEvent == "error"

Event(type, transcript, delta) ==
    [seq |-> 0, json |-> TRUE, type |-> type, transcript |-> transcript, delta |-> delta]
NotJson == [seq |-> 0, json |-> FALSE, type |-> "", transcript |-> "", delta |-> <<>>]

\* "AAAAAAAAAAA=": four silent 16-bit samples; "AQID": the bytes 1, 2, 3.
Silence4 == <<0, 0, 0, 0, 0, 0, 0, 0, 0, 0, 0, Pad>>
B64Bytes123 == <<0, 16, 8, 3>>
B64Truncated == <<0, 0, 0>>

Inbound ==
    { Event(SessionCreated, "", <<>>), Event(BufferCleared, "", <<>>),
      Event(SpeechStarted, "", <<>>),
      Event(UserDone, "hello", <<>>), Event(UserDone, "", <<>>),
      Event(UserFailed, "", <<>>),
      Event(AiDone, "hi", <<>>), Event(AiDone, "", <<>>),
      Event(AudioDelta, "", Silence4), Event(AudioDelta, "", B64Bytes123),
      Event(AudioDelta, "", <<>>), Event(AudioDelta, "", B64Truncated),
      Event(ErrorEvent, "", <<>>), Event("response.done", "", <<>>),
      NotJson }

\* Faulty variant: the two transcript branches of lines 253-263 exchanged.
TagSwapped(m) ==
    IF m.type = SpeechStarted THEN "AudioStop"
    ELSE IF m.type = UserDone /\ m.transcript # "" THEN "AiTranscript"
    ELSE IF m.type = AiDone /\ m.transcript # "" THEN "UserTranscript"
    ELSE IF m.type = AudioDelta /\ m.delta # <<>> THEN "AudioChunk"
    ELSE "none"

\* Lines 243-267: the event a message is turned into, "none" when there is none.
Tag(m) ==
    IF m.type = SpeechStarted THEN "AudioStop"
    ELSE IF m.type = UserDone /\ m.transcript # "" THEN "UserTranscript"
    ELSE IF m.type = AiDone /\ m.transcript # "" THEN "AiTranscript"
    ELSE IF m.type = AudioDelta /\ m.delta # <<>> THEN "AudioChunk"
    ELSE "none"

\* json.loads (line 243) or base64.b64decode (line 267) raises.
Raises(m) == ~m.json \/ (Tag(m) = "AudioChunk" /\ ~B64Ok(m.delta))

\* Lines 277-291: the registered handler an event goes to.
HandlerOf(tag) ==
    IF tag = "AudioStop" THEN "audio_stop"
    ELSE IF tag = "UserTranscript" THEN "user_transcript"
    ELSE IF tag = "AiTranscript" THEN "ai_transcript"
    ELSE "audio_chunk"
Registered(tag) == tag # "none" /\ HandlerOf(tag) \in handlers

\* One callback invocation: by is the loop that makes it, seq the arrival
\* number of the message, done whether the callback has ended.
Emitted(by, c, m) ==
    [by |-> by, conn |-> c, seq |-> m.seq, done |-> FALSE, tag |-> Tag(m),
     text |-> IF Tag(m) \in {"UserTranscript", "AiTranscript"} THEN m.transcript ELSE "",
     bytes |-> IF Tag(m) = "AudioChunk" THEN B64Decode(m.delta) ELSE <<>>]

\* ---------------------------------------------- _schedule_transcript_persist
\* Lines 293-333: one persistence task is created and tracked.  persist_ctx
\* is the transcription store being configured.
\* Lines 294-299: the identifiers the record is keyed by are known.
CtxKnown == ~Falsy(ctx.call_sid) /\ ~Falsy(ctx.recording_sid) /\ ctx.attempt.known

SchedulePersist ==
    IF persist_ctx /\ CtxKnown
    THEN LET b == CHOOSE x \in BgIds :
                     bg[x].pc = "none" /\ \A y \in BgIds : y < x => bg[y].pc # "none"
         IN /\ bg' = [bg EXCEPT ![b] = NewLoop("store")]
            /\ background_tasks' = background_tasks \cup {b}
    ELSE UNCHANGED <<bg, background_tasks>>

\* Faulty variant: persist() without the try / except of lines 304 and 328.
ResultUncaught(exit) ==
    IF exit = "cancelled" THEN "cancelled"
    ELSE IF exit \in {"error", "enqueue_failed", "mark_failed"} THEN "raised"
    ELSE "returned"
\* Lines 304-329: how the task ends.  Every Exception of a collaborator is
\* caught and logged inside persist(); only a cancellation leaves it.
Result(exit) == IF exit = "cancelled" THEN "cancelled" ELSE "returned"

\* The task has ended: the done callback (line 332) takes it out of the set
\* (cur: the callbacks the receive loop has started by then).
BgEnds(b, exit) ==
    /\ bg' = [bg EXCEPT ![b].pc = "done", ![b].exit = exit, ![b].result = Result(exit),
                        ![b].persist = (bg[b].persist \/ exit = "stored"),
                        ![b].cur = Len(events)]
    /\ background_tasks' = background_tasks \ {b}

\* Faulty variant: the notification branch runs whatever store_transcript did.
StoreContinuesAnyway(ok) == sms_queue
\* Lines 305-312: the branch of line 312 is reached when store_transcript has
\* returned and a notification queue is configured.
StoreContinues(ok) == ok /\ sms_queue

\* Lines 305-312 and 328-329: store_transcript returns or raises.
BgStored(b, ok) ==
    /\ running = 0
    /\ bg[b].pc = "store"
    /\ ~bg[b].cancel
    /\ IF StoreContinues(ok)
       THEN /\ bg' = [bg EXCEPT ![b].pc = "build", ![b].persist = ok]
            /\ UNCHANGED background_tasks
       ELSE BgEnds(b, IF ok THEN "stored" ELSE "error")
    /\ UNCHANGED <<cfgVars, smsVars, ctxVars, mixVars, ws, sender_task, receiver_task, send_queue,
                   connection_lock, close_lock, running, pc, local, snd, rcv,
                   netVars, histVars>>

\* Lines 313-320: build_sms_candidate returns a candidate, returns None, or
\* raises; with a candidate sms_queue.enqueue is called (n counts the calls).
BgBuilt(b, r) ==
    /\ running = 0
    /\ bg[b].pc = "build"
    /\ ~bg[b].cancel
    /\ IF r = "candidate"
       THEN /\ bg' = [bg EXCEPT ![b].pc = "enqueue", ![b].n = @ + 1]
            /\ UNCHANGED background_tasks
       ELSE BgEnds(b, IF r = "none" THEN "stored" ELSE "error")
    /\ UNCHANGED <<cfgVars, smsVars, ctxVars, mixVars, ws, sender_task, receiver_task, send_queue,
                   connection_lock, close_lock, running, pc, local, snd, rcv,
                   netVars, histVars>>

\* Lines 320-327: enqueue returns, and mark_sms_enqueued is called, or it
\* raises, which is logged.
BgEnqueued(b, ok) ==
    /\ running = 0
    /\ bg[b].pc = "enqueue"
    /\ ~bg[b].cancel
    /\ IF ok
       THEN /\ bg' = [bg EXCEPT ![b].pc = "mark"]
            /\ UNCHANGED background_tasks
       ELSE BgEnds(b, "enqueue_failed")
    /\ UNCHANGED <<cfgVars, smsVars, ctxVars, mixVars, ws, sender_task, receiver_task, send_queue,
                   connection_lock, close_lock, running, pc, local, snd, rcv,
                   netVars, histVars>>

\* Lines 321-327: mark_sms_enqueued returns or raises.
BgMarked(b, ok) ==
    /\ running = 0
    /\ bg[b].pc = "mark"
    /\ ~bg[b].cancel
    /\ BgEnds(b, IF ok THEN "enqueued" ELSE "mark_failed")
    /\ UNCHANGED <<cfgVars, smsVars, ctxVars, mixVars, ws, sender_task, receiver_task, send_queue,
                   connection_lock, close_lock, running, pc, local, snd, rcv,
                   netVars, histVars>>

\* The task is cancelled (line 192) at the call it awaits.
BgCancelled(b) ==
    /\ running = 0
    /\ bg[b].pc \in {"store", "build", "enqueue", "mark"}
    /\ bg[b].cancel
    /\ BgEnds(b, "cancelled")
    /\ UNCHANGED <<cfgVars, smsVars, ctxVars, mixVars, ws, sender_task, receiver_task, send_queue,
                   connection_lock, close_lock, running, pc, local, snd, rcv,
                   netVars, histVars>>

\* ---------------------------------------------------------- _receiver_loop
\* Line 242, first run: the loop iterates over self.ws as it is then.
ReceiverBegin(c) ==
    /\ running = 0
    /\ rcv[c].pc = "new"
    /\ ~rcv[c].cancel
    /\ rcv' = IF ws = 0
              THEN [rcv EXCEPT ![c].pc = "done", ![c].exit = "no_transport"]
              ELSE [rcv EXCEPT ![c].pc = "recv", ![c].ws = ws]
    /\ UNCHANGED <<cfgVars, smsVars, ctxVars, mixVars, fieldVars, running, pc, local, snd, bg, netVars, histVars>>

\* Line 242: the next message of the transport, in arrival order.
NextMessage(box) == Head(box)

\* Faulty variant: the callback is started but not awaited.
ReadyToReadEarly(l) == l.pc \in {"recv", "cb"}

\* Lines 242-267: the loop reads the next message once the dispatch of the
\* previous one, its awaited callback included, has returned.
ReadyToRead(l) == l.pc = "recv"

\* The callback loop c awaits has ended.
CallbackEnded(c) ==
    [i \in DOMAIN events |->
        IF events[i].by = c /\ events[i].seq = rcv[c].cur
        THEN [events[i] EXCEPT !.done = TRUE] ELSE events[i]]

\* Lines 242-275: one message is read and dispatched.
ReceiverRead(c) ==
    /\ running = 0
    /\ ReadyToRead(rcv[c])
    /\ ~rcv[c].cancel
    /\ inbox[rcv[c].ws] # <<>>
    /\ LET k == rcv[c].ws
           m == NextMessage(inbox[k])
           n == rcv[c].n + 1
       IN /\ inbox' = [inbox EXCEPT ![k] = Tail(@)]
          /\ IF Raises(m)
             THEN /\ rcv' = [rcv EXCEPT ![c].pc = "done", ![c].n = n,
                                        ![c].exit = "message"]
                  /\ UNCHANGED <<events, bg, background_tasks>>
             ELSE IF Registered(Tag(m))
             THEN /\ events' = Append(events, Emitted(c, k, m))
                  /\ rcv' = [rcv EXCEPT ![c].pc = "cb", ![c].n = n, ![c].cur = m.seq,
                                        ![c].persist = (Tag(m) = "UserTranscript")]
                  /\ UNCHANGED <<bg, background_tasks>>
             ELSE /\ rcv' = [rcv EXCEPT ![c].n = n]
                  /\ IF Tag(m) = "UserTranscript"
                     THEN SchedulePersist
                     ELSE UNCHANGED <<bg, background_tasks>>
                  /\ UNCHANGED events
    /\ UNCHANGED <<cfgVars, smsVars, ctxVars, mixVars, ws, sender_task, receiver_task, send_queue,
                   connection_lock, close_lock, running, pc, local, snd, conn, wire,
                   outcome, calls, accepted, lost, delivered, attempts, closes, quiesced>>

\* Lines 252-267: the awaited callback returns or raises.
ReceiverCallback(c, ok) ==
    /\ running = 0
    /\ rcv[c].pc = "cb"
    /\ ~rcv[c].cancel
    /\ events' = CallbackEnded(c)
    /\ IF ok
       THEN /\ rcv' = [rcv EXCEPT ![c].pc = "recv", ![c].persist = FALSE]
            /\ IF rcv[c].persist THEN SchedulePersist
               ELSE UNCHANGED <<bg, background_tasks>>
       ELSE /\ rcv' = [rcv EXCEPT ![c].pc = "done", ![c].exit = "callback"]
            /\ UNCHANGED <<bg, background_tasks>>
    /\ UNCHANGED <<cfgVars, smsVars, ctxVars, mixVars, ws, sender_task, receiver_task, send_queue,
                   connection_lock, close_lock, running, pc, local, snd, netVars,
                   outcome, calls, accepted, lost, delivered, attempts, closes, quiesced>>

\* Lines 242 and 274: the transport is closed, the iteration ends or raises.
ReceiverClosed(c) ==
    /\ running = 0
    /\ rcv[c].pc = "recv"
    /\ ~rcv[c].cancel
    /\ conn[rcv[c].ws] = "closed"
    /\ rcv' = [rcv EXCEPT ![c].pc = "done", ![c].exit = "closed"]
    /\ UNCHANGED <<cfgVars, smsVars, ctxVars, mixVars, fieldVars, running, pc, local, snd, bg, netVars, histVars>>

\* Lines 272-273.
ReceiverCancelled(c) ==
    /\ running = 0
    /\ rcv[c].pc \in {"new", "recv", "cb"}
    /\ rcv[c].cancel
    /\ rcv' = [rcv EXCEPT ![c].pc = "done", ![c].exit = "cancelled"]
    /\ events' = IF rcv[c].pc = "cb" THEN CallbackEnded(c) ELSE events
    /\ UNCHANGED <<cfgVars, smsVars, ctxVars, mixVars, fieldVars, running, pc, local, snd, bg, netVars,
                   outcome, calls, accepted, lost, delivered, attempts, closes, quiesced>>

\* ------------------------------------------------------ the upstream service
Deliver(c, m) ==
    /\ running = 0
    /\ conn[c] = "open"
    /\ inbox' = [inbox EXCEPT ![c] = Append(@, [m EXCEPT !.seq = delivered + 1])]
    /\ delivered' = delivered + 1
    /\ UNCHANGED <<cfgVars, smsVars, ctxVars, mixVars, fieldVars, taskVars, conn, wire,
                   outcome, calls, accepted, lost, events, attempts, closes, quiesced>>

\* The connection drops.
Drop(c) ==
    /\ running = 0
    /\ conn[c] = "open"
    /\ conn' = [conn EXCEPT ![c] = "closed"]
    /\ UNCHANGED <<cfgVars, smsVars, ctxVars, mixVars, fieldVars, taskVars, inbox, wire, histVars>>

\* ------------------------------------------------------ the Stream Context
\* Faulty variant: the identifier is assigned whatever was passed.
UpdateFieldAlways(old, new) == new

\* Lines 124-129: one identifier.
UpdateField(old, new) == IF Falsy(new) THEN old ELSE new

\* Faulty variant: the attempt counts the updates that carry one.
UpdateAttemptCounts(old, a) ==
    IF a.kind \in {"none", "bad"} THEN old ELSE Attempt((old.val + 1) % 4)
\* Lines 130-134: int(attempt), unless attempt is None or int() raises.
UpdateAttempt(old, a) ==
    IF a.kind \in {"none", "bad"} THEN old ELSE Attempt(a.val)

UpdatedContext(c, a) ==
    [call_sid |-> UpdateField(c.call_sid, a.call_sid),
     stream_sid |-> UpdateField(c.stream_sid, a.stream_sid),
     recording_sid |-> UpdateField(c.recording_sid, a.recording_sid),
     attempt |-> UpdateAttempt(c.attempt, a.attempt)]

\* ------------------------------------------------------- the Twilio adapter
\* update_stream_context(**a), lines 114-134.
UpdateContext(a) ==
    /\ running = 0
    /\ ctx' = UpdatedContext(ctx, a)
    /\ last' = [Last("update", a, NoFrame, "") EXCEPT
                    !.again = (last.op = "update" /\ last.args = a)]
    /\ UNCHANGED <<cfgVars, smsVars, fieldVars, taskVars, netVars, histVars, mixVars,
                   tw, tel, sunk, sent, stream>>

\* audioop.ulaw2lin(_, 2): one 16-bit sample per byte; audioop.ratecv from
\* 8000 to 24000 Hz with no carried state: one output sample for the first
\* input sample and three for each further one (lines 110-123).
Wideband(nbytes) == IF nbytes = 0 THEN 0 ELSE 3 * nbytes - 2

\* handle_message raises: the endpoint leaves its receive loop (server.py
\* lines 198-204).
StreamEnds(why) == stream' = [open |-> FALSE, why |-> why]

\* handle_message(raw_message), lines 40-87.  A "binary" frame is bytes, a
\* "text" frame is not JSON, a "scalar" frame is JSON but not an object.
HandleMessage(f) ==
    /\ running = 0
    /\ stream.open
    /\ sent' = Append(sent, f)
    /\ last' = Last("frame", NoArgs, f, "")
    /\ IF f.kind = "scalar"
       THEN /\ StreamEnds("shape")
            /\ UNCHANGED <<tw, ctx, sunk, accepted, send_queue>>
       ELSE IF f.kind = "start"
       THEN /\ tw' = [tw EXCEPT !.call_sid = f.callSid, !.stream_sid = f.streamSid]
            /\ ctx' = UpdatedContext(ctx, [call_sid |-> f.callSid,
                                           stream_sid |-> f.streamSid,
                                           recording_sid |-> tw.recording_sid,
                                           attempt |-> AsArg(tw.attempt)])
            /\ UNCHANGED <<stream, sunk, accepted, send_queue>>
       ELSE IF f.kind = "media" /\ f.payload # <<>>
       THEN IF B64Ok(f.payload)
            THEN /\ Enqueue
                 /\ sunk' = Append(sunk, [frame |-> Len(sent) + 1,
                                          samples |-> Wideband(Len(B64Decode(f.payload)))])
                 /\ UNCHANGED <<tw, ctx, stream>>
            ELSE /\ StreamEnds("payload")
                 /\ UNCHANGED <<tw, ctx, sunk, accepted, send_queue>>
       ELSE UNCHANGED <<tw, ctx, stream, sunk, accepted, send_queue>>
    /\ UNCHANGED <<cfgVars, smsVars, mixVars, ws, sender_task, receiver_task, background_tasks,
                   connection_lock, close_lock, taskVars, netVars, tel,
                   outcome, calls, lost, events, delivered, attempts, closes, quiesced>>

\* The telephony peer sends a frame after the endpoint has left its receive
\* loop: nothing reads it.
Unread(f) ==
    /\ running = 0
    /\ ~stream.open
    /\ sent' = Append(sent, f)
    /\ last' = Last("unread", NoArgs, f, "")
    /\ UNCHANGED <<cfgVars, smsVars, fieldVars, taskVars, netVars, histVars, mixVars,
                   ctx, tw, tel, sunk, stream>>

\* send_transcript(text, speaker_prefix=speaker), lines 89-98.
Envelope(sid, speaker, text) ==
    [event |-> "message", streamSid |-> sid, speaker |-> speaker, text |-> text]
\* Faulty variant: send_transcript without the check of lines 92-94.
AddressableAlways(sid) == TRUE
Addressable(sid) == ~Falsy(sid)

SendTranscript(text, speaker) ==
    /\ running = 0
    /\ tel' = IF Addressable(tw.stream_sid)
              THEN Append(tel, Envelope(tw.stream_sid, speaker, text))
              ELSE tel
    /\ last' = Last("send_transcript", NoArgs, NoFrame, text)
    /\ UNCHANGED <<cfgVars, smsVars, fieldVars, taskVars, netVars, histVars, mixVars,
                   ctx, tw, sunk, sent, stream>>

\* ------------------------------------------------ the twilio_stream endpoint
\* server.py lines 165-194: the relay is built and start() is called.
EpStart ==
    /\ pc[Ep] = "idle"
    /\ running = 0
    /\ StartEnter(Ep)
    /\ UNCHANGED calls

\* server.py line 194: start() raises out of the endpoint.
EpRaised ==
    /\ pc[Ep] = "s_raised"
    /\ running = Ep
    /\ pc' = [pc EXCEPT ![Ep] = "e_raised"]
    /\ running' = 0
    /\ UNCHANGED <<cfgVars, smsVars, ctxVars, mixVars, fieldVars, local, snd, rcv, bg, netVars, histVars>>

\* server.py lines 195-197: the endpoint waits for a telephony frame.
EpListen ==
    /\ pc[Ep] = "s_ret"
    /\ running = Ep
    /\ pc' = [pc EXCEPT ![Ep] = "e_recv"]
    /\ running' = 0
    /\ UNCHANGED <<cfgVars, smsVars, ctxVars, mixVars, fieldVars, local, snd, rcv, bg, netVars, histVars>>

\* server.py lines 197-198, twilio_handler.py lines 70-77: a media frame.
EpMedia ==
    /\ pc[Ep] = "e_recv"
    /\ HandleMessage(TwFrame("media", None, None, B64Bytes123))

\* server.py lines 199-204: receive() raises or the task is cancelled, and
\* the finally block calls close().
EpFails ==
    /\ pc[Ep] = "e_recv"
    /\ running = 0
    /\ CloseEnter(Ep)
    /\ UNCHANGED calls

\* server.py line 204: close() has returned, the endpoint ends.
EpDone ==
    /\ pc[Ep] = "c_ret"
    /\ running = Ep
    /\ pc' = [pc EXCEPT ![Ep] = "e_done"]
    /\ running' = 0
    /\ UNCHANGED <<cfgVars, smsVars, ctxVars, mixVars, fieldVars, local, snd, rcv, bg, netVars, histVars>>

\* ------------------------------------------------------- the specifications
\* What every run has: the two loops and the persistence tasks of the relay,
\* and a connection that may drop.
SendSteps ==
    \/ \E c \in Conns : SenderIter(c)
    \/ \E c \in Conns : SenderBlock(c)
    \/ \E c \in Conns, ok \in BOOLEAN : SenderSent(c, ok)

LoopSteps ==
    \/ \E c \in Conns : SenderCancelled(c)
    \/ \E c \in Conns : ReceiverBegin(c)
    \/ \E c \in Conns : ReceiverClosed(c)
    \/ \E c \in Conns : ReceiverCancelled(c)
    \/ \E c \in Conns : Drop(c)

ReadSteps ==
    \/ \E c \in Conns : ReceiverRead(c)
    \/ \E c \in Conns, ok \in BOOLEAN : ReceiverCallback(c, ok)
    \/ \E b \in BgIds, ok \in BOOLEAN : BgStored(b, ok)
    \/ \E b \in BgIds : BgCancelled(b)

\* One task calling start() and close().
StartSteps(t) ==
    \/ \E ok \in BOOLEAN : StartConnected(t, ok)
    \/ \E ok \in BOOLEAN : StartCfgSent(t, ok)

CloseSteps(t) ==
    \/ CloseJoinLoops(t)
    \/ CloseSuspend(t)
    \/ CloseJoinBg(t)
    \/ CloseFinish(t)

CallSteps(t) ==
    \/ StartCall(t)
    \/ StartSteps(t)
    \/ \E ok \in BOOLEAN : StartRespSent(t, ok)
    \/ TaskYield(t)
    \/ CloseCall(t)
    \/ CloseSteps(t)

\* Spec: two tasks call start() and close() in any order and at any time,
\* while audio is enqueued and the upstream service sends a transcript.
LifeMsgs == 1
LifeInbound == 1
LifeEnqueue == accepted < LifeMsgs /\ EnqueueAudio
LifeDeliver(c) == delivered < LifeInbound /\ Deliver(c, Event(UserDone, "hello", <<>>))

Next ==
    \/ \E t \in Tasks : CallSteps(t)
    \/ \E t \in Tasks, ok \in BOOLEAN : StartToken(t, ok)
    \/ \E t \in Tasks : StartLocked(t)
    \/ \E t \in Tasks : CloseLocked(t)
    \/ LoopSteps
    \/ SendSteps
    \/ ReadSteps
    \/ LifeEnqueue
    \/ \E c \in Conns : LifeDeliver(c)

Spec == Init /\ [][Next]_vars

\* DataSpec: one task starts, closes and restarts the relay while audio is
\* enqueued; the upstream service sends nothing.
DataEnqueue == accepted < MaxMsgs /\ EnqueueAudio

InitData ==
    /\ InitRelay
    /\ InitNoSms
    /\ InitCall
    /\ api_key \in BOOLEAN
    /\ client_id \in BOOLEAN
    /\ enable_responses \in BOOLEAN
    /\ persist_ctx = TRUE
    /\ handlers = AllHandlers

NextData ==
    \/ CallSteps(1)
    \/ \E ok \in BOOLEAN : StartToken(1, ok)
    \/ LoopSteps
    \/ SendSteps
    \/ DataEnqueue

DataSpec == InitData /\ [][NextData]_vars

\* RecvSpec: one task starts and closes the relay while the upstream service
\* sends messages of every kind.
RecvDeliver(c, m) == delivered < MaxInbound /\ Deliver(c, m)

InitRecv ==
    /\ InitRelay
    /\ InitNoSms
    /\ InitCall
    /\ api_key = TRUE
    /\ client_id = FALSE
    /\ enable_responses = TRUE
    /\ persist_ctx \in BOOLEAN
    /\ handlers \in {AllHandlers, {"user_transcript", "ai_transcript"}, {}}

NextRecv ==
    \/ CallSteps(1)
    \/ LoopSteps
    \/ ReadSteps
    \/ \E c \in Conns, m \in Inbound : RecvDeliver(c, m)

RecvSpec == InitRecv /\ [][NextRecv]_vars

\* EpSpec: the twilio_stream endpoint drives the relay.  Every task of the
\* event loop that can run does run; the telephony peer and the upstream
\* service are free to send, to fail, or to do neither.
EpMsgs == 1
EpInbound == 1
EpEnqueue == accepted < EpMsgs /\ EpMedia
EpDeliver(c) == delivered < EpInbound /\ Deliver(c, Event(UserDone, "hello", <<>>))

InitEp ==
    /\ InitRelay
    /\ InitNoSms
    /\ InitCall
    /\ api_key = TRUE
    /\ client_id = FALSE
    /\ enable_responses = FALSE
    /\ persist_ctx \in BOOLEAN
    /\ handlers = {"user_transcript", "ai_transcript"}

EpTask ==
    \/ EpStart
    \/ EpRaised
    \/ EpListen
    \/ EpDone
    \/ StartSteps(Ep)
    \/ CloseSteps(Ep)

SenderTask(c) ==
    \/ SenderIter(c)
    \/ SenderBlock(c)
    \/ \E ok \in BOOLEAN : SenderSent(c, ok)
    \/ SenderCancelled(c)

ReceiverTask(c) ==
    \/ ReceiverBegin(c)
    \/ ReceiverRead(c)
    \/ \E ok \in BOOLEAN : ReceiverCallback(c, ok)
    \/ ReceiverClosed(c)
    \/ ReceiverCancelled(c)

BgTask(b) ==
    \/ \E ok \in BOOLEAN : BgStored(b, ok)
    \/ BgCancelled(b)

NextEp ==
    \/ EpTask
    \/ EpFails
    \/ EpEnqueue
    \/ \E c \in Conns : SenderTask(c)
    \/ \E c \in Conns : ReceiverTask(c)
    \/ \E b \in BgIds : BgTask(b)
    \/ \E c \in Conns : EpDeliver(c)
    \/ \E c \in Conns : Drop(c)

EpSpec ==
    /\ InitEp
    /\ [][NextEp]_vars
    /\ WF_vars(EpTask)
    /\ \A c \in Conns : WF_vars(SenderTask(c))
    /\ \A c \in Conns : WF_vars(ReceiverTask(c))
    /\ \A b \in BgIds : WF_vars(BgTask(b))

\* CtxSpec: update_stream_context is called with every combination of
\* arguments while start frames arrive at the adapter.
MaxStarts == 2
CallArgs == {None, "", "C1", "C2"}
StreamArgs == {None, "S1", "S2"}
RecordingArgs == {None, "", "R1"}
AttemptArgs == {NoneArg, IntArg(0), IntArg(2), StrArg(1), BadArg}
CtxArgs ==
    [call_sid : CallArgs, stream_sid : StreamArgs, recording_sid : RecordingArgs,
     attempt : AttemptArgs]
StartFrames ==
    {TwFrame("start", "C1", "S1", <<>>), TwFrame("start", "C2", "S2", <<>>),
     TwFrame("start", None, None, <<>>)}

\* The relay and the adapter as constructed for a call whose query
\* arguments may or may not carry a recording id and an attempt number.
InitAdapter ==
    /\ InitRelay
    /\ InitNoSms
    /\ api_key = TRUE
    /\ client_id = FALSE
    /\ enable_responses = FALSE
    /\ persist_ctx = TRUE
    /\ handlers = {"user_transcript", "ai_transcript"}
    /\ sms_queue = FALSE
    /\ \E q \in {<<None, NoAttempt>>, <<"R1", Attempt(1)>>} :
          tw = [call_sid |-> None, stream_sid |-> None,
                recording_sid |-> q[1], attempt |-> q[2]]
    /\ InitIdle

InitCtx ==
    /\ InitAdapter
    /\ ctx = NoContext

CtxStart(f) == Len(sent) < MaxStarts /\ HandleMessage(f)

NextCtx ==
    \/ \E a \in CtxArgs : UpdateContext(a)
    \/ \E f \in StartFrames : CtxStart(f)

CtxSpec == InitCtx /\ [][NextCtx]_vars

\* TwSpec: the telephony peer sends frames of every kind to the adapter of a
\* call whose relay is not connected, while transcripts are sent back.
MaxFrames == 5
MaxSent == 1
MediaA == TwFrame("media", None, None, B64Bytes123)
MediaPadded == TwFrame("media", None, None, Silence4)
MediaEmpty == TwFrame("media", None, None, <<>>)
MediaBad == TwFrame("media", None, None, B64Truncated)
OffPath ==
    {TwFrame(k, None, None, <<>>) :
        k \in {"binary", "text", "scalar", "stop", "heartbeat", "mark", "other"}}
TwFrames == OffPath \cup StartFrames \cup {MediaA, MediaPadded, MediaEmpty, MediaBad}

\* server.py lines 172-187: the context starts from the query arguments.
InitTw ==
    /\ InitAdapter
    /\ \E hint \in {None, "C0"} :
          ctx = UpdatedContext(NoContext, [call_sid |-> hint, stream_sid |-> None,
                                           recording_sid |-> tw.recording_sid,
                                           attempt |-> AsArg(tw.attempt)])

TwFrameIn(f) == Len(sent) < MaxFrames /\ HandleMessage(f)
TwUnread(f) == Len(sent) < MaxFrames /\ Unread(f)
TwSend(text, speaker) == Len(tel) < MaxSent /\ SendTranscript(text, speaker)

NextTw ==
    \/ \E f \in TwFrames : TwFrameIn(f)
    \/ \E f \in {MediaA, MediaPadded} : TwUnread(f)
    \/ \E speaker \in {"Caller", "Assistant"} : TwSend("hello", speaker)

TwSpec == InitTw /\ [][NextTw]_vars

\* PersistSpec: one task starts and closes the relay of a call whose store
\* and notification queue may be configured, while the upstream service sends
\* transcripts, the stream context is updated, and the collaborators of the
\* persistence tasks return or fail.
PersistContexts ==
    {[call_sid |-> "C1", stream_sid |-> None, recording_sid |-> r, attempt |-> a] :
        r \in {None, "R1"}, a \in {NoAttempt, Attempt(1)}}
PersistArgs ==
    {[call_sid |-> "C1", stream_sid |-> "S1", recording_sid |-> "R1", attempt |-> NoneArg],
     [call_sid |-> "", stream_sid |-> None, recording_sid |-> None, attempt |-> IntArg(0)]}

InitPersist ==
    /\ InitRelay
    /\ InitNoSms
    /\ InitIdle
    /\ api_key = TRUE
    /\ client_id = FALSE
    /\ enable_responses = TRUE
    /\ persist_ctx = TRUE
    /\ handlers = {"user_transcript", "ai_transcript"}
    /\ sms_queue \in BOOLEAN
    /\ ctx \in PersistContexts
    /\ tw = [ctx EXCEPT !.call_sid = None]

PersistDeliver(c) ==
    delivered < MaxInbound /\ Deliver(c, Event(UserDone, "hello", <<>>))

PersistTask(b) ==
    \/ \E ok \in BOOLEAN : BgStored(b, ok)
    \/ \E r \in {"candidate", "none", "error"} : BgBuilt(b, r)
    \/ \E ok \in BOOLEAN : BgEnqueued(b, ok)
    \/ \E ok \in BOOLEAN : BgMarked(b, ok)
    \/ BgCancelled(b)

NextPersist ==
    \/ CallSteps(1)
    \/ LoopSteps
    \/ ReadSteps
    \/ \E b \in BgIds : PersistTask(b)
    \/ \E c \in Conns : PersistDeliver(c)
    \/ \E a \in PersistArgs : UpdateContext(a)

PersistSpec == InitPersist /\ [][NextPersist]_vars

\* ------------------------------------------------------------ AmbientMixer
\* Lines 19-23.
PRESETS == {"none", "office", "call_center"}
\* Lines 150-152, of a mixer that was constructed.
is_enabled == ~built.raised /\ preset # "none"

Min(a, b) == IF a < b THEN a ELSE b
\* Faulty variant: the cursor stays on the last sample at the end of the
\* buffer.
WrapToTail(p, L) == IF p >= L THEN L - 1 ELSE p
\* Lines 141-142: loop back to the start.
Wrap(p, L) == IF p >= L THEN 0 ELSE p

\* Lines 130-142: the while loop of _get_noise_chunk, from cursor pos with
\* remaining samples to copy; gives the cursor and the chunk it ends with.
RECURSIVE NoiseLoop(_, _, _, _)
NoiseLoop(buf, pos, remaining, chunk) ==
    IF remaining > 0
    THEN LET available == Len(buf) - pos
             to_copy == Min(available, remaining)
         IN NoiseLoop(buf, Wrap(pos + to_copy, Len(buf)), remaining - to_copy,
                      chunk \o SubSeq(buf, pos + 1, pos + to_copy))
    ELSE [pos |-> pos, chunk |-> chunk]

\* Lines 130-142 with an empty buffer: to_copy is 0 in every iteration and
\* remaining never decreases.
Diverges(buf, n) == Len(buf) = 0 /\ n > 0

\* The speech handed to mix(): nbytes bytes, each of its own value.
Tts(nbytes) == [i \in 1..nbytes |-> i]
\* Faulty variant: silence of one byte per sample.
SilencePerSample(nbytes) == [i \in 1..(nbytes \div 2) |-> 0]
\* Line 166: b'\x00' * chunk_size_bytes.
Silence(nbytes) == [i \in 1..nbytes |-> 0]
\* Line 172: the noise alone, as a speech signal of zeros.
NoSpeech(n) == [j \in 1..(2 * n) |-> 0]
\* Lines 192-207 and 172-176: two bytes for each sample, each byte fixed by the
\* speech byte at its place and the noise sample added to it (a noise sample
\* is at least 1, so that a mixed byte differs from the speech byte).
Mixed(tts, noise) ==
    [j \in 1..(2 * Len(noise)) |-> 100 * noise[(j + 1) \div 2] + tts[j]]

\* _get_noise_chunk(num_samples), lines 121-144, of an enabled mixer.
Chunk(n) == NoiseLoop(noise_buffer, noise_position, n, <<>>).chunk
GetNoiseChunk(n) ==
    IF Diverges(noise_buffer, n)
    THEN /\ mixer_stuck' = TRUE
         /\ UNCHANGED <<noise_position, noise_out>>
    ELSE LET r == NoiseLoop(noise_buffer, noise_position, n, <<>>)
         IN /\ noise_position' = r.pos
            /\ noise_out' = noise_out \o r.chunk
            /\ UNCHANGED mixer_stuck

\* next_chunk(n): _get_noise_chunk called directly; zeros without a buffer
\* (lines 123-124).
NextChunk(n) ==
    /\ ~built.raised
    /\ ~mixer_stuck
    /\ IF is_enabled
       THEN /\ GetNoiseChunk(n)
            /\ mixer_ret' = Ret("next_chunk", n,
                                IF Diverges(noise_buffer, n) THEN <<>> ELSE Chunk(n), FALSE)
       ELSE /\ noise_out' = noise_out \o [i \in 1..n |-> 0]
            /\ mixer_ret' = Ret("next_chunk", n, [i \in 1..n |-> 0], FALSE)
            /\ UNCHANGED <<noise_position, mixer_stuck>>
    /\ UNCHANGED <<built, clip, preset, noise_buffer, ambient_gain>>
    /\ UNCHANGED <<cfgVars, smsVars, ctxVars, fieldVars, taskVars, netVars, histVars>>

\* mix_tts_with_ambient(tts_bytes), lines 178-207: np.frombuffer raises on an
\* odd number of bytes; otherwise one sample of noise per sample of speech.
Mix(nbytes) ==
    /\ ~built.raised
    /\ ~mixer_stuck
    /\ IF ~is_enabled
       THEN /\ mixer_ret' = Ret("mix", nbytes, Tts(nbytes), FALSE)
            /\ UNCHANGED <<noise_position, noise_out, mixer_stuck>>
       ELSE IF nbytes % 2 = 1
       THEN /\ mixer_ret' = Ret("mix", nbytes, <<>>, TRUE)
            /\ UNCHANGED <<noise_position, noise_out, mixer_stuck>>
       ELSE /\ GetNoiseChunk(nbytes \div 2)
            /\ mixer_ret' = Ret("mix", nbytes,
                                IF Diverges(noise_buffer, nbytes \div 2) THEN <<>>
                                ELSE Mixed(Tts(nbytes), Chunk(nbytes \div 2)), FALSE)
    /\ UNCHANGED <<built, clip, preset, noise_buffer, ambient_gain>>
    /\ UNCHANGED <<cfgVars, smsVars, ctxVars, fieldVars, taskVars, netVars, histVars>>

\* get_ambient_only_chunk(chunk_size_bytes), lines 154-176.
AmbientOnly(nbytes) ==
    /\ ~built.raised
    /\ ~mixer_stuck
    /\ IF ~is_enabled
       THEN /\ mixer_ret' = Ret("ambient_only", nbytes, Silence(nbytes), FALSE)
            /\ UNCHANGED <<noise_position, noise_out, mixer_stuck>>
       ELSE LET num_samples == nbytes \div 2
            IN /\ GetNoiseChunk(num_samples)
               /\ mixer_ret' = Ret("ambient_only", nbytes,
                                   IF Diverges(noise_buffer, num_samples) THEN <<>>
                                   ELSE Mixed(NoSpeech(num_samples), Chunk(num_samples)),
                                   FALSE)
    /\ UNCHANGED <<built, clip, preset, noise_buffer, ambient_gain>>
    /\ UNCHANGED <<cfgVars, smsVars, ctxVars, fieldVars, taskVars, netVars, histVars>>

\* Faulty variant: reset() that leaves the cursor where it is.
ResetNoRewind ==
    /\ ~built.raised
    /\ ~mixer_stuck
    /\ noise_out' = <<>>
    /\ mixer_ret' = Ret("reset", 0, <<>>, FALSE)
    /\ UNCHANGED <<built, clip, preset, noise_buffer, noise_position, ambient_gain, mixer_stuck>>
    /\ UNCHANGED <<cfgVars, smsVars, ctxVars, fieldVars, taskVars, netVars, histVars>>

\* reset(), lines 209-211; noise_out is the samples read since then.
Reset ==
    /\ ~built.raised
    /\ ~mixer_stuck
    /\ noise_position' = 0
    /\ noise_out' = <<>>
    /\ mixer_ret' = Ret("reset", 0, <<>>, FALSE)
    /\ UNCHANGED <<built, clip, preset, noise_buffer, ambient_gain, mixer_stuck>>
    /\ UNCHANGED <<cfgVars, smsVars, ctxVars, fieldVars, taskVars, netVars, histVars>>

\* ------------------------------------------------------------- _soft_clip
\* Floating point, scaled down: a value of dtype d is an integer number of
\* units of 2^-FracBits(d).  The float32 of the mixer's arrays has 8 fraction
\* bits here and the float64 of a Python float 12, where the real formats have
\* 24 and 53 for magnitudes in [1/2, 1); 0.95 rounds down in all four.
FracBits(dtype) == IF dtype = "float32" THEN 8 ELSE 12
Unit(dtype) == 2 ^ FracBits(dtype)
Abs(v) == IF v < 0 THEN 0 - v ELSE v
Sign(v) == IF v < 0 THEN 0 - 1 ELSE 1
\* round to nearest of num / den, for den > 0
RoundDiv(num, den) == Sign(num) * ((2 * Abs(num) + den) \div (2 * den))

\* Line 146: threshold = 0.95, as the dtype holds it.
ThresholdAs(dtype) == RoundDiv(95 * Unit(dtype), 100)

\* tanh(x / 0.95) for an integer x, in units of 2^-16 (0.7828, 0.9708, 0.9964,
\* 0.99956, 0.999946; 1 - 6.5e-6 and everything above it is nearer to 1 than
\* to any other multiple of 2^-16).
TanhRef(x) ==
    LET a == Abs(x)
        t == IF a = 0 THEN 0
             ELSE IF a = 1 THEN 51303
             ELSE IF a = 2 THEN 63620
             ELSE IF a = 3 THEN 65300
             ELSE IF a = 4 THEN 65507
             ELSE IF a = 5 THEN 65532
             ELSE 65536
    IN Sign(x) * t
\* np.tanh(audio / threshold) of line 148: the value of the dtype nearest to
\* the hyperbolic tangent.
Tanh(x, dtype) == RoundDiv(TanhRef(x), 65536 \div Unit(dtype))

\* Line 148: np.tanh(audio / threshold) * threshold, in the dtype of the
\* array; the product is rounded to the dtype.
SoftClipOne(x, dtype) == RoundDiv(Tanh(x, dtype) * ThresholdAs(dtype), Unit(dtype))

\* _soft_clip(audio), lines 146-148, element by element.
SoftClip(dtype, audio) ==
    /\ clip' = [dtype |-> dtype, audio |-> audio,
                out |-> [i \in DOMAIN audio |-> SoftClipOne(audio[i], dtype)]]
    /\ UNCHANGED <<built, preset, noise_buffer, noise_position, ambient_gain, noise_out,
                   mixer_ret, mixer_stuck>>
    /\ UNCHANGED <<cfgVars, smsVars, ctxVars, fieldVars, taskVars, netVars, histVars>>

\* ClipSpec: _soft_clip is applied to arrays of either dtype.
MaxIn == 6
MaxArr == 2
Samples == (0 - MaxIn)..MaxIn
Arrays == UNION {[1..n -> Samples] : n \in 0..MaxArr}

InitClip ==
    /\ InitRelay
    /\ InitNoSms
    /\ InitIdle
    /\ api_key = TRUE
    /\ client_id = FALSE
    /\ enable_responses = FALSE
    /\ persist_ctx = FALSE
    /\ handlers = {}
    /\ sms_queue = FALSE
    /\ ctx = NoContext
    /\ tw = NoContext

NextClip == \E dtype \in {"float32", "float64"}, audio \in Arrays : SoftClip(dtype, audio)

ClipSpec == InitClip /\ [][NextClip]_vars

\* MixSpec: a mixer of any preset, over a noise buffer of any length the
\* loader can return, serves chunk reads, mixes and resets of any size.
MaxBuf == 3
MaxChunk == 5
MaxOut == 7
\* _generate_synthetic_noise, lines 107-119: 30 seconds of seeded noise, here
\* MaxBuf samples.
Synthetic == [i \in 1..MaxBuf |-> i]
\* _load_noise, lines 51-105: the samples of the asset, or the synthetic noise
\* when the file is absent (lines 56-58) or reading it raises (lines
\* 103-105); an asset without frames gives an array of length zero.
LoadNoise(asset) ==
    IF asset.kind \in {"absent", "unreadable"} THEN Synthetic
    ELSE [i \in 1..asset.samples |-> i]

\* Faulty variant: a constructor that accepts any preset name.
KnownAny(name) == TRUE
\* Lines 32-33.
Known(name) == name \in PRESETS

PresetNames == PRESETS \cup {"beach"}
Assets ==
    {Asset("absent", 0), Asset("unreadable", 0)}
        \cup {Asset("wav", L) : L \in 0..MaxBuf}

InitMix ==
    /\ InitRelay
    /\ InitNoSms
    /\ InitTelephony
    /\ api_key = TRUE
    /\ client_id = FALSE
    /\ enable_responses = FALSE
    /\ persist_ctx = FALSE
    /\ handlers = {}
    /\ sms_queue = FALSE
    /\ ctx = NoContext
    /\ tw = NoContext
    /\ \E name \in PresetNames, asset \in Assets :
          /\ built = [name |-> name, raised |-> ~Known(name),
                      asset |-> IF name = "none" THEN NoAsset ELSE asset]
          /\ preset = IF Known(name) THEN name ELSE None
          /\ noise_buffer = IF Known(name) /\ name # "none" THEN LoadNoise(asset)
                            ELSE <<>>
    /\ noise_position = 0
    /\ ambient_gain = AmbientGain
    /\ noise_out = <<>>
    /\ mixer_ret = NoRet
    /\ mixer_stuck = FALSE
    /\ clip = NoClip

Fits(n) == Len(noise_out) + n <= MaxOut

MixNextChunk(n) == Fits(n) /\ NextChunk(n)
MixMix(nbytes) == Fits(nbytes \div 2) /\ Mix(nbytes)
MixAmbientOnly(nbytes) == Fits(nbytes \div 2) /\ AmbientOnly(nbytes)

NextMix ==
    \/ \E n \in 0..MaxChunk : MixNextChunk(n)
    \/ \E nbytes \in 0..(2 * MaxChunk) : MixMix(nbytes)
    \/ \E nbytes \in 0..(2 * MaxChunk) : MixAmbientOnly(nbytes)
    \/ Reset

MixSpec == InitMix /\ [][NextMix]_vars

\* ------------------------------------------------------------ the claims
AudioFrames == {i \in DOMAIN wire : wire[i].msg = AudioAppend}
ConfigFrames == {i \in DOMAIN wire : wire[i].msg = SessionUpdate}
Written(id) == Cardinality({i \in AudioFrames : wire[i].id = id})
Queued(id) == Cardinality({i \in DOMAIN send_queue : send_queue[i].id = id})
Discarded(id) == Cardinality({l \in lost : l.id = id})
SpawnedS == Cardinality({c \in Conns : snd[c].pc # "none"})
SpawnedR == Cardinality({c \in Conns : rcv[c].pc # "none"})

\* C1 (as stated): once close() has returned, and until start() is called
\* again, both loops have ended, no persistence task runs or is tracked, the
\* transport is absent and no transport is open, whatever a start() that was
\* in progress during the close() does afterwards.
C1_CloseQuiesces ==
    quiesced => Quiet /\ \A c \in Conns : conn[c] # "open"

\* C2: start() calls made, possibly concurrently, on a relay that was never
\* closed and none of which failed make at most one connection attempt, open
\* at most one transport, send one session configuration and spawn one sender
\* and one receiver loop; a call that has returned returned with exactly that
\* one connection established.
C2_OneConnection ==
    closes = 0 /\ outcome.raised = 0 =>
        /\ attempts <= 1
        /\ Opened <= 1
        /\ Cardinality(ConfigFrames) <= 1
        /\ SpawnedS <= 1
        /\ SpawnedR <= 1
        /\ outcome.ok >= 1 =>
            /\ attempts = 1
            /\ Opened = 1
            /\ Cardinality(ConfigFrames) = 1
            /\ SpawnedS = 1
            /\ SpawnedR = 1
            /\ ws # 0
            /\ sender_task = ws
            /\ receiver_task = ws

\* Two calls have returned, one of them after waiting for the other at the lock.
C2_Witness ==
    /\ closes = 0
    /\ outcome.raised = 0
    /\ outcome.ok = 2
    /\ outcome.waited = 1
    /\ attempts = 1

\* C3: a close() that finds the relay quiet (never started, or already
\* closed) returns with the relay quiet and the outbound queue empty.
C3_CloseIdempotent ==
    \A t \in Tasks : pc[t] = "c_ret" /\ local[t].quiet => Quiet /\ send_queue = <<>>

\* A second close() on a relay that was started and closed has returned.
C3_Witness ==
    \E t \in Tasks :
        /\ pc[t] = "c_ret"
        /\ local[t].quiet
        /\ closes >= 2
        /\ Opened >= 1
        /\ Quiet

\* C4 (as stated): the receive loop never ends because of a malformed message
\* or because a callback raised.
C4_LoopSurvives ==
    \A c \in Conns : rcv[c].exit \notin {"message", "callback"}

\* C5 (as stated): no audio message accepted on a started relay is discarded
\* by close(), and none is written twice.
C5_NothingLostAtTeardown ==
    /\ \A l \in lost : l.live => l.why # "drain"
    /\ \A id \in 1..accepted : Written(id) <= 1

\* C5 (amended): every accepted audio message is in exactly one place: still
\* on the queue, written to a transport once, or discarded (by the drain of
\* close(), by the sender loop finding no transport, or by a failed write).
C5_AtMostOnce ==
    \A id \in 1..accepted : Written(id) + Queued(id) + Discarded(id) = 1

\* close() has returned having discarded a message that was accepted on a
\* started relay, after another message was written.
C5_Witness ==
    /\ pc[1] = "c_ret"
    /\ \E l \in lost : l.live /\ l.why = "drain"
    /\ AudioFrames # {}

\* C6: audio messages are written in the order in which they were enqueued.
C6_FifoWrites ==
    \A i, j \in AudioFrames : i < j => wire[i].id < wire[j].id

\* Two audio messages have been written.
C6_Witness ==
    \E i, j \in AudioFrames : i < j /\ wire[i].id = 1 /\ wire[j].id = 2

\* C7 (as stated): after the upstream connection dropped, the endpoint does
\* not end with the error raised to its caller.
C7_CloseCompletes ==
    (\E c \in Conns : conn[c] = "closed") => pc[Ep] # "e_raised"

\* What the dispatch of lines 246-271 is expected to produce, written out
\* per type.
Want(m) ==
    IF ~m.json THEN "none"
    ELSE IF m.type = SpeechStarted THEN "AudioStop"
    ELSE IF m.type = UserDone THEN "UserTranscript"
    ELSE IF m.type = AiDone THEN "AiTranscript"
    ELSE IF m.type = AudioDelta THEN "AudioChunk"
    ELSE "none"
Slot(tag) ==
    IF tag = "AudioStop" THEN "audio_stop"
    ELSE IF tag = "UserTranscript" THEN "user_transcript"
    ELSE IF tag = "AiTranscript" THEN "ai_transcript"
    ELSE IF tag = "AudioChunk" THEN "audio_chunk"
    ELSE "none"
Payload(m) == IF Want(m) = "AudioChunk" THEN m.delta # <<>> ELSE
              IF Want(m) \in {"UserTranscript", "AiTranscript"} THEN m.transcript # ""
              ELSE TRUE
WellFormed(m) == m.json /\ (m.type = AudioDelta => Len(m.delta) % 4 = 0)
Zeros8 == <<0, 0, 0, 0, 0, 0, 0, 0>>
WantBytes(m) ==
    IF Want(m) # "AudioChunk" THEN <<>>
    ELSE IF m.delta = Silence4 THEN Zeros8
    ELSE IF m.delta = B64Bytes123 THEN <<1, 2, 3>>
    ELSE <<>>
WantText(m) == IF Want(m) \in {"UserTranscript", "AiTranscript"} THEN m.transcript ELSE ""
\* loop c reads a message in this step
Reads(c) == rcv'[c].n = rcv[c].n + 1
ReadBy(c) == Head(inbox[rcv[c].ws])

\* C8 (as stated): every well-formed message of one of the four dispatched
\* types whose callback is registered starts exactly one callback of the
\* matching tag.
C8_OneCallbackPerMessage ==
    [][\A c \in Conns : Reads(c) =>
          LET m == ReadBy(c) IN
          WellFormed(m) /\ Slot(Want(m)) \in handlers =>
              /\ Len(events') = Len(events) + 1
              /\ events'[Len(events')].tag = Want(m)]_vars

\* C8 (amended): a well-formed message of one of the four dispatched types
\* starts exactly one callback, of the matching tag and with the transcript
\* or the decoded bytes, when its transcript or delta is not empty and the
\* callback is registered; every other message starts none.  After a
\* well-formed message the loop goes on.
C8_Dispatch ==
    [][\A c \in Conns : Reads(c) =>
          LET m == ReadBy(c)
              due == WellFormed(m) /\ Slot(Want(m)) \in handlers /\ Payload(m)
          IN /\ events' = IF due
                          THEN Append(events,
                                      [by |-> c, conn |-> rcv[c].ws, seq |-> m.seq,
                                       done |-> FALSE, tag |-> Want(m),
                                       text |-> WantText(m), bytes |-> WantBytes(m)])
                          ELSE events
             /\ WellFormed(m) => rcv'[c].pc = IF due THEN "cb" ELSE "recv"]_vars

\* Two messages were read: one started the AudioChunk callback with four
\* silent samples, the other started none.
C8_Witness ==
    /\ Len(events) = 1
    /\ events[1].tag = "AudioChunk"
    /\ events[1].bytes = Zeros8
    /\ \E c \in Conns : rcv[c].n = 2 /\ rcv[c].pc \in {"cb", "recv"}

\* C9: of two callbacks started for messages of one connection, the earlier
\* one is for the message that arrived first and has ended before the later
\* one starts.
C9_CallbackOrder ==
    \A i, j \in DOMAIN events :
        i < j /\ events[i].conn = events[j].conn =>
            events[i].done /\ events[i].seq < events[j].seq

\* Two callbacks of the same tag were started on one connection.
C9_Witness ==
    /\ Len(events) = 2
    /\ events[1].conn = events[2].conn
    /\ events[1].tag = events[2].tag

C11_FieldsStable ==
    [][/\ \A f \in {"call_sid", "stream_sid", "recording_sid"} :
             ~Falsy(ctx[f]) => ctx'[f] = ctx[f]
       /\ ctx.attempt.known =>
             ctx'.attempt.known /\ ctx'.attempt.val >= ctx.attempt.val]_vars

\* C12: an update_stream_context call leaves every identifier for which it
\* passes None or "" as it was, and leaves attempt as it was when it passes
\* None or a value that is no integer; no step ever clears a field.
C12_NeverClears ==
    [][/\ last'.op = "update" =>
             /\ \A f \in {"call_sid", "stream_sid", "recording_sid"} :
                   Falsy(last'.args[f]) => ctx'[f] = ctx[f]
             /\ last'.args.attempt.kind \in {"none", "bad"} => ctx'.attempt = ctx.attempt
       /\ \A f \in {"call_sid", "stream_sid", "recording_sid"} :
             ~Falsy(ctx[f]) => ~Falsy(ctx'[f])
       /\ ctx.attempt.known => ctx'.attempt.known]_vars

\* An update that passed "" for the call id, None for the recording id and
\* no attempt, together with a stream id, has kept all three.
C12_Witness ==
    /\ last.op = "update"
    /\ last.args.call_sid = ""
    /\ last.args.recording_sid = None
    /\ last.args.attempt = NoneArg
    /\ last.args.stream_sid = "S2"
    /\ ctx = [call_sid |-> "C1", stream_sid |-> "S2", recording_sid |-> "R1",
              attempt |-> Attempt(2)]

\* C13 (as stated): a frame outside the media path (binary, text that is no
\* frame, an unknown event, heartbeat, mark, stop) makes handle_message raise
\* nothing, forwards nothing, and leaves the adapter identifiers and the
\* Stream Context as they were.
C13_OffPathHarmless ==
    [][last'.op = "frame" /\ last'.frame \in OffPath =>
          /\ stream'.open
          /\ sunk' = sunk
          /\ send_queue' = send_queue
          /\ tw' = tw
          /\ ctx' = ctx]_vars

\* C14 (as stated): handle_message never raises on a media frame whose
\* payload cannot be decoded.
C14_MalformedDropped ==
    stream.why # "payload"

\* the frames the peer has sent that carry a non-empty, decodable payload
Audible == {i \in DOMAIN sent : sent[i] \in {MediaA, MediaPadded}}
\* the start frames sent that carry both identifiers
StartsSent == {i \in DOMAIN sent : sent[i].kind = "start" /\ ~Falsy(sent[i].callSid)
                                   /\ ~Falsy(sent[i].streamSid)}

\* C15 (as stated): the sink has received exactly one buffer per media frame
\* sent with a non-empty payload, in frame order, and nothing for any other
\* frame; the last start frame with both identifiers has left them in the
\* Stream Context.
C15_OneBufferPerFrame ==
    /\ \A i \in Audible : Cardinality({k \in DOMAIN sunk : sunk[k].frame = i}) = 1
    /\ \A k \in DOMAIN sunk : sunk[k].frame \in Audible
    /\ \A j, k \in DOMAIN sunk : j < k => sunk[j].frame < sunk[k].frame
    /\ \A i \in StartsSent :
          (\A j \in StartsSent : j <= i) =>
              ctx.call_sid = sent[i].callSid /\ ctx.stream_sid = sent[i].streamSid

\* C16: a send_transcript call sends nothing while the adapter's stream
\* identifier is None or empty, and otherwise sends exactly one message
\* envelope that carries the current stream identifier and the text; nothing
\* else sends on the telephony transport, and no envelope ever carries an
\* absent or empty stream identifier.
C16_TranscriptAddressed ==
    [][/\ last'.op = "send_transcript" =>
             IF Falsy(tw.stream_sid)
             THEN tel' = tel
             ELSE /\ Len(tel') = Len(tel) + 1
                  /\ SubSeq(tel', 1, Len(tel)) = tel
                  /\ tel'[Len(tel')].event = "message"
                  /\ tel'[Len(tel')].streamSid = tw.stream_sid
                  /\ tel'[Len(tel')].text = last'.text
       /\ last'.op # "send_transcript" => tel' = tel
       /\ \A i \in DOMAIN tel' : ~Falsy(tel'[i].streamSid)]_vars

\* A transcript was sent after a start frame: one envelope, addressed to the
\* stream of that frame.
C16_Witness ==
    /\ last.op = "send_transcript"
    /\ tw.stream_sid = "S1"
    /\ Len(tel) = 1
    /\ tel[1].streamSid = "S1"
    /\ tel[1].text = "hello"

\* the ways a collaborator of a persistence task fails
Failures == {"error", "enqueue_failed", "mark_failed"}

\* C17: a persistence task calls sms_queue.enqueue only after its own
\* store_transcript call has returned, only with a notification queue
\* configured, only while a recording identifier and an attempt number are
\* known, and at most once; after an enqueue failure the task has ended and
\* makes no further call.
C17_EnqueueAfterStore ==
    [][\A b \in BgIds :
          /\ bg'[b].n > bg[b].n =>
                /\ bg[b].n = 0
                /\ bg[b].persist
                /\ sms_queue
                /\ ~Falsy(ctx.recording_sid)
                /\ ctx.attempt.known
          /\ bg[b].exit = "enqueue_failed" =>
                bg'[b].pc = "done" /\ bg'[b].n = bg[b].n]_vars

\* One task has enqueued a job and marked it; the enqueue of another has
\* failed after one call.
C17_Witness ==
    \E a, b \in BgIds :
        /\ bg[a].exit = "enqueued" /\ bg[a].n = 1
        /\ bg[b].exit = "enqueue_failed" /\ bg[b].n = 1

\* C18: a step in which a persistence task ends with a failure of the store
\* or of the notification queue is a normal return of that task and changes
\* neither loop, no call in progress, no transport and no relay field other
\* than the set of tracked tasks; and close() returns without raising.
C18_FailureContained ==
    [][/\ \A b \in BgIds :
             (bg[b].pc # "done" /\ bg'[b].pc = "done" /\ bg'[b].exit \in Failures) =>
                 /\ bg'[b].result = "returned"
                 /\ snd' = snd /\ rcv' = rcv
                 /\ pc' = pc /\ local' = local
                 /\ ws' = ws /\ conn' = conn /\ inbox' = inbox
                 /\ sender_task' = sender_task /\ receiver_task' = receiver_task
                 /\ send_queue' = send_queue
                 /\ events' = events
                 /\ outcome' = outcome
       /\ \A t \in AllTasks :
             (InClose(t) /\ ~InClose(t)') => pc'[t] = "c_ret" /\ outcome'.raised = outcome.raised]_vars

\* A persistence task failed; afterwards another transcript was dispatched to
\* its callback, which returned, and close() has returned.
C18_Witness ==
    /\ \E b \in BgIds :
          /\ bg[b].exit \in Failures
          /\ Len(events) > bg[b].cur
          /\ events[Len(events)].done
    /\ pc[1] = "c_ret"
    /\ quiesced

\* C19 (as stated): the noise cursor of an enabled mixer is at least 0 and
\* less than the length of the noise buffer.
C19_CursorInBuffer ==
    is_enabled => 0 <= noise_position /\ noise_position < Len(noise_buffer)

\* C20: the samples an enabled mixer has returned since construction or the
\* last reset are its noise buffer read cyclically from the start: the k-th is
\* buffer[k mod L], with k counted from 0.
C20_CyclicRead ==
    (is_enabled /\ Len(noise_buffer) > 0) =>
        \A k \in 1..Len(noise_out) :
            noise_out[k] = noise_buffer[((k - 1) % Len(noise_buffer)) + 1]

\* A single chunk read longer than the buffer has returned, after an earlier
\* read that left the cursor inside the buffer.
C20_Witness ==
    /\ is_enabled
    /\ Len(noise_buffer) = 3
    /\ mixer_ret.op = "next_chunk"
    /\ mixer_ret.asked = 5
    /\ noise_out = <<1, 2, 3, 1, 2, 3, 1>>
    /\ noise_position = 1

\* C21: in Disabled state mix(x) returns x byte for byte and ambient_only(n)
\* returns n zero bytes, without raising, and neither call changes the
\* cursor, the buffer, the preset, the gain or the samples read.
C21_DisabledIdentity ==
    [][preset = "none" =>
          /\ mixer_ret'.op = "mix" =>
                mixer_ret'.out = Tts(mixer_ret'.asked) /\ ~mixer_ret'.raised
          /\ mixer_ret'.op = "ambient_only" =>
                /\ Len(mixer_ret'.out) = mixer_ret'.asked
                /\ \A i \in DOMAIN mixer_ret'.out : mixer_ret'.out[i] = 0
                /\ ~mixer_ret'.raised
          /\ mixer_ret'.op \in {"mix", "ambient_only"} =>
                UNCHANGED <<preset, noise_buffer, noise_position, ambient_gain,
                            noise_out, mixer_stuck>>]_vars

\* A disabled mixer has returned an odd number of silent bytes.
C21_Witness ==
    /\ preset = "none"
    /\ mixer_ret.op = "ambient_only"
    /\ mixer_ret.asked = 3
    /\ mixer_ret.out = <<0, 0, 0>>

\* the mixer calls that read a chunk of noise
ChunkReads == {"next_chunk", "mix", "ambient_only"}

\* C22: reset() sets the cursor to 0 and leaves the noise buffer, the preset
\* and the gain as they are; a step that changes the cursor is a chunk read
\* or a reset; and the first sample read after reset() is buffer[0].
C22_ResetRewinds ==
    [][/\ mixer_ret'.op = "reset" =>
             /\ noise_position' = 0
             /\ UNCHANGED <<preset, noise_buffer, ambient_gain, mixer_stuck>>
       /\ noise_position' # noise_position =>
             \/ mixer_ret'.op = "reset"
             \/ mixer_ret'.op \in ChunkReads /\ mixer_ret'.got > 0
       /\ (mixer_ret.op = "reset" /\ mixer_ret'.op \in ChunkReads /\ preset # "none"
              /\ noise_out' # <<>>) =>
             noise_out'[1] = noise_buffer[1]]_vars

\* reset() has rewound a cursor that was inside the buffer.
C22_Witness ==
    /\ mixer_ret.op = "reset"
    /\ mixer_ret.at = 2
    /\ noise_position = 0
    /\ preset = "office"
    /\ noise_buffer = <<1, 2, 3>>

\* C23: whatever the relay is doing, send_pcm16 / send_audio_base64 can be
\* called and completes in one step, which appends exactly one message to
\* the outbound queue, writes nothing on a transport and suspends no task.
C23_EnqueueNeverWaits ==
    [][/\ (running = 0 /\ accepted < MaxMsgs) => ENABLED DataEnqueue
       /\ accepted' # accepted =>
             /\ accepted' = accepted + 1
             /\ Len(send_queue') = Len(send_queue) + 1
             /\ SubSeq(send_queue', 1, Len(send_queue)) = send_queue
             /\ send_queue'[Len(send_queue')].id = accepted'
             /\ wire' = wire
             /\ running' = running
             /\ pc' = pc /\ snd' = snd /\ rcv' = rcv]_vars

\* Two messages are queued while close() is in progress: one accepted by
\* the started relay, one accepted after the sender loop had ended.
C23_Witness ==
    /\ InClose(1)
    /\ Len(send_queue) = 2
    /\ send_queue[1].live
    /\ ~send_queue[2].live

\* C24: an update_stream_context call that repeats the call before it, with
\* the same arguments, leaves the Stream Context as the first call left it.
C24_UpdateIdempotent ==
    [][(last'.op = "update" /\ last'.again) => ctx' = ctx]_vars

\* The same update, with every field given, was applied twice in a row to a
\* context that held other values.
C24_Witness ==
    /\ last.op = "update"
    /\ last.again
    /\ last.args = [call_sid |-> "C2", stream_sid |-> "S2", recording_sid |-> "R1",
                    attempt |-> IntArg(2)]
    /\ ctx = [call_sid |-> "C2", stream_sid |-> "S2", recording_sid |-> "R1",
              attempt |-> Attempt(2)]
    /\ sent # <<>>

\* C25: construction raises exactly for an unknown preset name; otherwise
\* the mixer keeps the preset it was given, and in every state it is enabled
\* exactly when that preset is not "none", over the synthetic noise when the
\* asset is absent or unreadable.
C25_StateFixedAtConstruction ==
    /\ built.raised <=> built.name \notin PRESETS
    /\ ~built.raised =>
          /\ preset = built.name
          /\ is_enabled <=> built.name # "none"
          /\ noise_buffer = IF built.name = "none" THEN <<>> ELSE LoadNoise(built.asset)
          /\ (is_enabled /\ built.asset.kind \in {"absent", "unreadable"}) =>
                noise_buffer = Synthetic /\ noise_buffer # <<>>

\* A mixer constructed with an unreadable asset has mixed, read chunks and
\* been reset, and is enabled over the synthetic noise.
C25_Witness ==
    /\ built = [name |-> "call_center", asset |-> Asset("unreadable", 0), raised |-> FALSE]
    /\ is_enabled
    /\ mixer_ret.op = "mix"
    /\ mixer_ret.at = 2
    /\ Len(noise_out) = 2

\* C26 (as stated): every element of what _soft_clip returns is strictly
\* below the threshold it was given (0.95 as a Python float) in magnitude,
\* and an element 0 is returned as 0.
C26_ClipStrictlyBelow ==
    \A i \in DOMAIN clip.out :
        /\ Abs(clip.out[i]) * (Unit("float64") \div Unit(clip.dtype)) < ThresholdAs("float64")
        /\ clip.audio[i] = 0 => clip.out[i] = 0

\* C27: before and after every step the background-task set holds exactly
\* the persistence tasks that were spawned and have not ended, however they
\* end; and when close() leaves its wait for the tasks and clears the set,
\* every task it found in the set has ended.
C27_TrackedTasks ==
    [][/\ background_tasks = AliveBg
       /\ background_tasks' = AliveBg'
       /\ \A t \in AllTasks :
             (pc[t] = "c_bg" /\ pc'[t] # "c_bg") =>
                 /\ \A b \in local[t].bg : bg[b].pc = "done"
                 /\ background_tasks' = {}]_vars

\* close() has returned after it had joined one task that it cancelled,
\* while another had ended by itself.
C27_Witness ==
    /\ pc[1] = "c_ret"
    /\ quiesced
    /\ bg[1].exit = "enqueued"
    /\ bg[2].exit = "cancelled"
    /\ background_tasks = {}

\* C28: a user-transcription-completed message with a non-empty transcript
\* spawns exactly one persistence task when the store and the identifiers of
\* the record are known, whether its callback is registered or not (a loop
\* that is cancelled while it awaits the callback is left out); no other
\* step, and no such message while the store or an identifier is missing,
\* spawns a task.
TasksSpawned == Cardinality({b \in BgIds : bg[b].pc # "none"})
HandledUserTranscript(c) ==
    \/ /\ rcv[c].pc = "cb"
       /\ rcv[c].persist
       /\ rcv'[c].pc # "cb"
       /\ rcv'[c].exit # "cancelled"
    \/ /\ ReadyToRead(rcv[c])
       /\ rcv'[c].n = rcv[c].n + 1
       /\ ~Raises(NextMessage(inbox[rcv[c].ws]))
       /\ Tag(NextMessage(inbox[rcv[c].ws])) = "UserTranscript"
       /\ ~Registered("UserTranscript")
C28_OneTaskPerTranscript ==
    [][TasksSpawned' - TasksSpawned =
           IF (\E c \in Conns : HandledUserTranscript(c)) /\ persist_ctx /\ CtxKnown
           THEN 1 ELSE 0]_vars

\* C29: whenever the relay holds a transport while no start() and no close()
\* is in progress, the sender loop and the receiver loop have been spawned
\* for that transport.
C29_TransportHasLoops ==
    (ws # 0 /\ \A t \in AllTasks : ~InStart(t) /\ ~InClose(t)) =>
        /\ sender_task = ws
        /\ receiver_task = ws
        /\ snd[ws].pc # "none"
        /\ rcv[ws].pc # "none"

\* C30: every next_chunk(n) on a constructed mixer terminates and returns
\* exactly n samples, whatever noise buffer the construction left, a buffer
\* of length zero included.
C30_NextChunkReturns ==
    mixer_ret.op = "next_chunk" =>
        /\ ~mixer_stuck
        /\ mixer_ret.got = mixer_ret.asked

\* C31: on an enabled mixer with a noise buffer that is not empty, mix(x)
\* returns exactly len(x) bytes and ambient_only(n_bytes) exactly n_bytes
\* bytes, without raising, and the call has advanced the cursor by the number
\* of samples it produced, modulo the buffer length.
C31_SizeMatchesRequest ==
    (is_enabled /\ Len(noise_buffer) > 0 /\ mixer_ret.op \in {"mix", "ambient_only"}) =>
        /\ ~mixer_ret.raised
        /\ mixer_ret.got = mixer_ret.asked
        /\ noise_position = (mixer_ret.at + (mixer_ret.got \div 2)) % Len(noise_buffer)

\* ----------------------------------------------------------- SmsQueueWorker
\* One SMS job and, possibly, one message that does not parse are in the
\* queue.  The store and Twilio return or raise; the queue operations return.
\* An exception that leaves _handle_message ends run_forever and the process
\* (run_sms_worker.py lines 77-85), which may be started again.
max_retries == 2            \* max_retries of the worker
MaxReceives == 5            \* messages the worker receives in one run
MaxRestarts == 2            \* times the worker process is started again
base_backoff_seconds == 30

StatusOf(code) == [known |-> TRUE, code |-> code]
\* exc.status of a TwilioRestException; NoStatus: status_code is None.
Statuses == {StatusOf(400), StatusOf(404), StatusOf(429), StatusOf(500), StatusOf(503)}

\* Faulty variant: every client error is retried as well.
ShouldRetryClientErrors(s) ==
    IF ~s.known THEN TRUE
    ELSE IF s.code >= 400 THEN TRUE
    ELSE FALSE
\* _should_retry, lines 244-252.
ShouldRetry(s) ==
    IF ~s.known THEN TRUE
    ELSE IF s.code >= 500 THEN TRUE
    ELSE IF s.code = 429 THEN TRUE
    ELSE FALSE

\* Line 214.
NewRetryCount(retry, s) == IF ShouldRetry(s) THEN retry + 1 ELSE retry

RECURSIVE Pow2(_)
Pow2(k) == IF k <= 0 THEN 1 ELSE 2 * Pow2(k - 1)
\* Faulty variant: the delay without its ceiling.
DelayUncapped(base, r) == base * Pow2(r - 1)
\* Line 227.
Delay(base, r) == Min(base * Pow2(r - 1), 3600)

Handling == worker.pc \notin {"idle", "dead"}
FreeIds == {i \in 1..MaxQ : msgs[i].state = "none"}
FreeId == CHOOSE i \in FreeIds : \A j \in FreeIds : i <= j

\* What an action of the worker leaves alone.
WorkerOnly ==
    UNCHANGED <<cfgVars, fieldVars, taskVars, netVars, histVars, ctxVars, mixVars,
                backoff, table, ops, jobs>>

\* _record_and_retry is entered, lines 202-214.
RecordAndRetry(reason, s) ==
    worker' = [worker EXCEPT !.pc = "rr_record", !.reason = reason, !.status = s]

\* run_once, lines 124-129, and _handle_message, lines 135-151: a visible
\* message is received (it is hidden for the visibility timeout) and parsed.
WorkerReceive(i) ==
    /\ worker.pc = "idle"
    /\ worker.received < MaxReceives
    /\ msgs[i].state = "visible"
    /\ msgs' = [msgs EXCEPT ![i].state = "hidden", ![i].taken = @ + 1]
    /\ worker' = [worker EXCEPT !.pc = IF msgs[i].parses THEN "download" ELSE "delete",
                                !.m = i, !.retry = msgs[i].retry, !.status = NoStatus,
                                !.reason = IF msgs[i].parses THEN "" ELSE "unparseable",
                                !.recorded = 0, !.exit = "none", !.received = @ + 1]
    /\ UNCHANGED sms_sends
    /\ WorkerOnly

\* Lines 150-161: download_transcript returns a transcript with a body,
\* one without, or raises.
WorkerDownloaded(r) ==
    /\ worker.pc = "download"
    /\ IF r = "body" THEN worker' = [worker EXCEPT !.pc = "send"]
       ELSE IF r = "nobody" THEN worker' = [worker EXCEPT !.pc = "delete", !.reason = "nobody"]
       ELSE RecordAndRetry("blob-error", NoStatus)
    /\ UNCHANGED <<msgs, sms_sends>>
    /\ WorkerOnly

\* Lines 173-183: messages.create returns, raises TwilioRestException with a
\* status, or raises something else.
WorkerSent(r, s) ==
    /\ worker.pc = "send"
    /\ IF r = "ok"
       THEN /\ sms_sends' = sms_sends + 1
            /\ worker' = [worker EXCEPT !.pc = "record_ok"]
       ELSE /\ UNCHANGED sms_sends
            /\ IF r = "twilio" THEN RecordAndRetry("twilio", s)
               ELSE RecordAndRetry("unexpected", NoStatus)
    /\ UNCHANGED msgs
    /\ WorkerOnly

\* Lines 185-191: record_sms_send_result returns or raises; nothing catches
\* what it raises.
WorkerRecordedSend(ok) ==
    /\ worker.pc = "record_ok"
    /\ worker' = IF ok THEN [worker EXCEPT !.pc = "delete", !.reason = "sent"]
                 ELSE [worker EXCEPT !.pc = "dead", !.exit = "raised"]
    /\ UNCHANGED <<msgs, sms_sends>>
    /\ WorkerOnly

\* Lines 214-221: record_sms_failure returns or raises.
WorkerRecordedFailure(ok) ==
    /\ worker.pc = "rr_record"
    /\ worker' = IF ok
                 THEN [worker EXCEPT !.pc = "rr_delete",
                                     !.recorded = NewRetryCount(worker.retry, worker.status)]
                 ELSE [worker EXCEPT !.pc = "dead", !.exit = "raised"]
    /\ UNCHANGED <<msgs, sms_sends>>
    /\ WorkerOnly

\* Lines 139, 160, 200 and 223: delete_message.  After line 223 the job is
\* re-enqueued or given up (lines 225-242).
WorkerDeleted ==
    /\ worker.pc \in {"delete", "rr_delete"}
    /\ msgs' = [msgs EXCEPT ![worker.m].state = "deleted", ![worker.m].deletes = @ + 1]
    /\ worker' =
          IF worker.pc = "delete"
          THEN [worker EXCEPT !.pc = "idle", !.exit = "returned"]
          ELSE IF ShouldRetry(worker.status)
                  /\ NewRetryCount(worker.retry, worker.status) <= max_retries
          THEN [worker EXCEPT !.pc = "rr_send"]
          ELSE [worker EXCEPT !.pc = "idle", !.exit = "gave_up"]
    /\ UNCHANGED sms_sends
    /\ WorkerOnly

\* Lines 226-228: the job is sent to the queue again, hidden for the delay.
WorkerRequeued ==
    /\ worker.pc = "rr_send"
    /\ FreeIds # {}
    /\ LET new_retry_count == NewRetryCount(worker.retry, worker.status)
       IN msgs' = [msgs EXCEPT ![FreeId] =
                      [NoMsg EXCEPT !.state = "hidden", !.retry = new_retry_count,
                                    !.delay = Delay(base_backoff_seconds, new_retry_count),
                                    !.of = worker.m, !.why = worker.status]]
    /\ worker' = [worker EXCEPT !.pc = "idle", !.exit = "requeued"]
    /\ UNCHANGED sms_sends
    /\ WorkerOnly

\* The queue: the visibility timeout or the delay of a hidden message is
\* over (while the worker handles a message, its receipt stays valid).
Reappears(i) ==
    /\ msgs[i].state = "hidden"
    /\ ~(Handling /\ worker.m = i)
    /\ msgs' = [msgs EXCEPT ![i].state = "visible"]
    /\ UNCHANGED <<worker, sms_sends>>
    /\ WorkerOnly

\* run_sms_worker.py line 85: the process is started again.
WorkerStart ==
    /\ worker.pc = "dead"
    /\ worker.starts < MaxRestarts
    /\ worker' = [worker EXCEPT !.pc = "idle", !.starts = @ + 1]
    /\ UNCHANGED <<msgs, sms_sends>>
    /\ WorkerOnly

Job(retry) == [NoMsg EXCEPT !.state = "visible", !.retry = retry]
Unparseable == [NoMsg EXCEPT !.state = "visible", !.parses = FALSE]

InitWork ==
    /\ InitRelay
    /\ InitCall
    /\ api_key = TRUE
    /\ client_id = FALSE
    /\ enable_responses = FALSE
    /\ persist_ctx = TRUE
    /\ handlers = {}
    /\ \E first \in {Job(0), Job(1)}, second \in {NoMsg, Unparseable} :
          msgs = [i \in 1..MaxQ |-> IF i = 1 THEN first ELSE IF i = 2 THEN second ELSE NoMsg]
    /\ worker = NoWorker
    /\ sms_sends = 0
    /\ backoff = NoBackoff
    /\ table = [a \in Attempts |-> NoRow]
    /\ ops = [o \in OpIds |-> NoStoreOp]
    /\ jobs = <<>>

NextWork ==
    \/ \E i \in 1..MaxQ : WorkerReceive(i)
    \/ \E r \in {"body", "nobody", "raised"} : WorkerDownloaded(r)
    \/ \E r \in {"ok", "twilio", "unexpected"}, st \in Statuses : WorkerSent(r, st)
    \/ \E ok \in BOOLEAN : WorkerRecordedSend(ok)
    \/ \E ok \in BOOLEAN : WorkerRecordedFailure(ok)
    \/ WorkerDeleted
    \/ WorkerRequeued
    \/ \E i \in 1..MaxQ : Reappears(i)
    \/ WorkerStart

WorkSpec == InitWork /\ [][NextWork]_vars

\* BackoffSpec: the visibility delay of line 227 for the successive retries
\* of one job, for several values of base_backoff_seconds (none negative).
MaxRetry == 8
Bases == {0, 1, 2, 5, 10, 15, 30, 60, 120, 450, 900, 1800, 3600, 7200}

InitBackoff ==
    /\ InitRelay
    /\ InitCall
    /\ api_key = TRUE
    /\ client_id = FALSE
    /\ enable_responses = FALSE
    /\ persist_ctx = TRUE
    /\ handlers = {}
    /\ msgs = [i \in 1..MaxQ |-> NoMsg]
    /\ worker = NoWorker
    /\ sms_sends = 0
    /\ \E base \in Bases : backoff = [NoBackoff EXCEPT !.base = base]
    /\ table = [a \in Attempts |-> NoRow]
    /\ ops = [o \in OpIds |-> NoStoreOp]
    /\ jobs = <<>>

\* Lines 226-227: the delay of the next re-enqueue.
NextDelay ==
    /\ backoff.r < MaxRetry
    /\ backoff' = [backoff EXCEPT !.r = @ + 1, !.prev = backoff.delay,
                                  !.delay = Delay(backoff.base, backoff.r + 1)]
    /\ UNCHANGED <<cfgVars, fieldVars, taskVars, netVars, histVars, ctxVars, mixVars,
                   msgs, worker, sms_sends, table, ops, jobs>>

NextBackoff == NextDelay

BackoffSpec == InitBackoff /\ [][NextBackoff]_vars

\* ------------------------------------------- VoicemailTranscriptionStore
\* The table rows of one call and recording, one row per attempt.  Every
\* await of a table call is a step; update_entity and upsert_entity in MERGE
\* mode overwrite the properties they carry and keep the others.
MaxRuns == 2        \* operations that run one after another in one place

Max(a, b) == IF a > b THEN a ELSE b
Existing(rows) == {v \in Attempts : rows[v].exists}
\* the attempts of a set in the order list_entities returns their rows
Ascending(S) == SelectSeq([v \in Attempts |-> v], LAMBDA v : v \in S)

\* Faulty variant: the attempt being stored is taken for the highest.
MaxAttemptIsCurrent(attempt, rows) == attempt
\* Lines 393-394.
MaxAttemptOf(attempt, rows) ==
    LET E == Existing(rows)
    IN IF E = {} THEN attempt
       ELSE Max(attempt, CHOOSE v \in E : \A u \in E : u <= v)

Or(a, b) == IF a # "" THEN a ELSE b

\* Lines 396-444: the entity _upsert_table_record writes over the row cur,
\* from the row prior it read before.
Upsert(cur, prior, attempt, max_attempt) ==
    [exists |-> TRUE,
     IsFinal |-> (attempt = max_attempt),
     SmsRequested |-> prior.SmsRequested,
     SmsSent |-> prior.SmsSent,
     SmsQueued |-> prior.SmsQueued,
     SmsDestination |-> Or(prior.SmsDestination, cur.SmsDestination),
     SmsSender |-> Or(prior.SmsSender, cur.SmsSender),
     ToNumber |-> Or(prior.ToNumber, cur.ToNumber),
     FromNumber |-> Or(prior.FromNumber, cur.FromNumber),
     TranscriptBlobUrl |-> "blob",
     SmsMessageSid |-> Or(prior.SmsMessageSid, cur.SmsMessageSid)]

\* Lines 468-479: the rows _update_attempt_flags patches, in order.
NeedsPatch(v, attempt, rows, max_attempt) ==
    LET desired_final == (v = max_attempt)
    IN IF v = attempt
       THEN ~(rows[v].exists /\ rows[v].IsFinal = desired_final)
       ELSE rows[v].IsFinal # desired_final
FlagsTodo(attempt, rows, max_attempt) ==
    LET first == Ascending({v \in Existing(rows) : NeedsPatch(v, attempt, rows, max_attempt)})
    IN IF rows[attempt].exists THEN first ELSE Append(first, attempt)

\* Faulty variant: a job that is already queued is offered again.
CandidateAgain(row) ==
    /\ row.exists
    /\ row.IsFinal /\ row.SmsRequested /\ ~row.SmsSent
    /\ Or(row.SmsDestination, row.ToNumber) # ""
    /\ Or(row.SmsSender, row.FromNumber) # ""
    /\ row.TranscriptBlobUrl # ""
\* build_sms_candidate, lines 210-251: a job is returned.
Candidate(row) ==
    /\ row.exists
    /\ row.IsFinal /\ row.SmsRequested /\ ~row.SmsSent /\ ~row.SmsQueued
    /\ Or(row.SmsDestination, row.ToNumber) # ""
    /\ Or(row.SmsSender, row.FromNumber) # ""
    /\ row.TranscriptBlobUrl # ""

\* What an action of the store leaves alone.
StoreOnly ==
    UNCHANGED <<cfgVars, fieldVars, taskVars, netVars, histVars, ctxVars, mixVars,
                msgs, worker, sms_sends, backoff>>
Idle(o) == ops[o].pc = "idle"
Begin(o, kind, first, attempt, to, from) ==
    /\ Idle(o)
    /\ ops[o].runs < MaxRuns
    /\ ops' = [ops EXCEPT ![o] = [NoStoreOp EXCEPT !.kind = kind, !.pc = first,
                                                   !.attempt = attempt, !.to = to,
                                                   !.from = from, !.runs = ops[o].runs + 1]]
    /\ UNCHANGED <<table, jobs>>
    /\ StoreOnly
Ends(o, ret) == ops' = [ops EXCEPT ![o].pc = "idle", ![o].ret = ret]

\* The persistence task of the relay calls store_transcript (voice_live_handler.py
\* line 305).
PersistBegin(o, attempt) == Begin(o, "persist", "list", attempt, "", "")

\* Lines 389-394: the rows of the recording are listed.
PersistListed(o) ==
    /\ ops[o].pc = "list"
    /\ ops' = [ops EXCEPT ![o].pc = "upsert", ![o].snap = table]
    /\ UNCHANGED <<table, jobs>>
    /\ StoreOnly

\* Lines 396-444: the row of the attempt is written.
PersistUpserted(o) ==
    /\ ops[o].pc = "upsert"
    /\ LET a == ops[o].attempt
           max_attempt == MaxAttemptOf(a, ops[o].snap)
           todo == FlagsTodo(a, ops[o].snap, max_attempt)
       IN /\ table' = [table EXCEPT ![a] = Upsert(table[a], ops[o].snap[a], a, max_attempt)]
          /\ ops' = [ops EXCEPT ![o].pc = "flags", ![o].todo = todo]
    /\ UNCHANGED jobs
    /\ StoreOnly

\* Lines 474-487, one row at a time; then store_transcript returns, and the
\* persistence task goes on when an SMS queue is configured
\* (voice_live_handler.py line 312).
PersistFlagged(o) ==
    /\ ops[o].pc = "flags"
    /\ IF ops[o].todo = <<>>
       THEN /\ IF sms_queue THEN ops' = [ops EXCEPT ![o].pc = "build", ![o].ret = "stored"]
               ELSE Ends(o, "stored")
            /\ UNCHANGED table
       ELSE LET v == Head(ops[o].todo)
                max_attempt == MaxAttemptOf(ops[o].attempt, ops[o].snap)
            IN /\ table' = [table EXCEPT ![v].IsFinal = (v = max_attempt)]
               /\ ops' = [ops EXCEPT ![o].todo = Tail(@)]
    /\ UNCHANGED jobs
    /\ StoreOnly

\* server.py lines 232-244: the request of /twilio/voicemail/textme.
TextmeBegin(o, attempt, to, from) == Begin(o, "textme", "get", attempt, to, from)

\* mark_sms_requested, lines 142-146: the row is read, or is not there.
TextmeGot(o) ==
    /\ ops[o].pc = "get"
    /\ IF table[ops[o].attempt].exists
       THEN ops' = [ops EXCEPT ![o].pc = "write", ![o].snap = table]
       ELSE Ends(o, "not_found")
    /\ UNCHANGED <<table, jobs>>
    /\ StoreOnly

\* Lines 148-157: the row that was read is written back with the request.
Requested(row, to, from) ==
    [row EXCEPT !.SmsRequested = TRUE,
                !.SmsDestination = Or(to, row.SmsDestination),
                !.SmsSender = Or(from, row.SmsSender)]
TextmeWritten(o) ==
    /\ ops[o].pc = "write"
    /\ table' = [table EXCEPT ![ops[o].attempt] =
                                 Requested(ops[o].snap[ops[o].attempt], ops[o].to, ops[o].from)]
    /\ ops' = [ops EXCEPT ![o].pc = IF sms_queue THEN "build" ELSE "idle",
                          ![o].ret = "requested"]
    /\ UNCHANGED jobs
    /\ StoreOnly

\* build_sms_candidate, lines 204-251, as both producers call it.
Built(o) ==
    /\ ops[o].pc = "build"
    /\ IF Candidate(table[ops[o].attempt])
       THEN ops' = [ops EXCEPT ![o].pc = "enqueue", ![o].ret = "candidate"]
       ELSE Ends(o, "no_candidate")
    /\ UNCHANGED <<table, jobs>>
    /\ StoreOnly

\* SmsQueueProducer.enqueue, sms_queue.py lines 102-111.
Enqueued(o) ==
    /\ ops[o].pc = "enqueue"
    /\ jobs' = Append(jobs, [attempt |-> ops[o].attempt, by |-> ops[o].kind])
    /\ ops' = [ops EXCEPT ![o].pc = "mark"]
    /\ UNCHANGED table
    /\ StoreOnly

\* mark_sms_enqueued, lines 264-270.
Marked(o) ==
    /\ ops[o].pc = "mark"
    /\ table' = [table EXCEPT ![ops[o].attempt].SmsQueued = TRUE]
    /\ Ends(o, "enqueued")
    /\ UNCHANGED jobs
    /\ StoreOnly

\* record_sms_send_result, lines 285-295, called by the worker for a job
\* that was enqueued.
RecordSendResult(attempt) ==
    /\ \E j \in 1..Len(jobs) : jobs[j].attempt = attempt
    /\ table[attempt].exists
    /\ table' = [table EXCEPT ![attempt].SmsSent = TRUE, ![attempt].SmsQueued = TRUE,
                              ![attempt].SmsMessageSid = "SM1"]
    /\ UNCHANGED <<ops, jobs>>
    /\ StoreOnly

\* update_sms_status_by_sid, lines 330-339: the rows of the message are
\* listed.
StatusBegin(o, status) == Begin(o, "status:" \o status, "find", 0, "", "")
StatusListed(o) ==
    /\ ops[o].pc = "find"
    /\ LET found == Ascending({v \in Existing(table) : table[v].SmsMessageSid = "SM1"})
       IN IF found = <<>> THEN Ends(o, "not_found")
          ELSE ops' = [ops EXCEPT ![o].pc = "patch", ![o].todo = found]
    /\ UNCHANGED <<table, jobs>>
    /\ StoreOnly

\* Lines 342-355, one row at a time.
StatusPatched(o) ==
    /\ ops[o].pc = "patch"
    /\ IF ops[o].todo = <<>>
       THEN /\ Ends(o, "updated")
            /\ UNCHANGED table
       ELSE /\ table' = [table EXCEPT ![Head(ops[o].todo)].SmsSent =
                                         (@ \/ ops[o].kind = "status:delivered")]
            /\ ops' = [ops EXCEPT ![o].todo = Tail(@)]
    /\ UNCHANGED jobs
    /\ StoreOnly

InitStore ==
    /\ InitRelay
    /\ InitIdle
    /\ sms_queue = TRUE
    /\ ctx = NoContext
    /\ tw = NoContext
    /\ api_key = TRUE
    /\ client_id = FALSE
    /\ enable_responses = FALSE
    /\ persist_ctx = TRUE
    /\ handlers = {}
    /\ msgs = [i \in 1..MaxQ |-> NoMsg]
    /\ worker = NoWorker
    /\ sms_sends = 0
    /\ backoff = NoBackoff
    /\ table = [a \in Attempts |-> NoRow]
    /\ ops = [o \in OpIds |-> NoStoreOp]
    /\ jobs = <<>>

StoreSteps(o) ==
    \/ PersistListed(o)
    \/ PersistUpserted(o)
    \/ PersistFlagged(o)
    \/ TextmeGot(o)
    \/ TextmeWritten(o)
    \/ Built(o)
    \/ Enqueued(o)
    \/ Marked(o)
    \/ StatusListed(o)
    \/ StatusPatched(o)

NextStore ==
    \/ \E o \in OpIds, a \in Attempts : PersistBegin(o, a)
    \/ \E o \in OpIds, a \in Attempts, n \in {<<"", "">>, <<"+1", "+2">>} :
          TextmeBegin(o, a, n[1], n[2])
    \/ \E o \in OpIds, status \in {"delivered", "failed"} : StatusBegin(o, status)
    \/ \E o \in OpIds : StoreSteps(o)
    \/ \E a \in Attempts : RecordSendResult(a)

StoreSpec == InitStore /\ [][NextStore]_vars

\* FinalSpec: store_transcript calls for the attempts of one recording, one
\* after another, with no SMS queue configured.
InitFinal ==
    /\ InitRelay
    /\ InitIdle
    /\ sms_queue = FALSE
    /\ ctx = NoContext
    /\ tw = NoContext
    /\ api_key = TRUE
    /\ client_id = FALSE
    /\ enable_responses = FALSE
    /\ persist_ctx = TRUE
    /\ handlers = {}
    /\ msgs = [i \in 1..MaxQ |-> NoMsg]
    /\ worker = NoWorker
    /\ sms_sends = 0
    /\ backoff = NoBackoff
    /\ table = [a \in Attempts |-> NoRow]
    /\ ops = [o \in OpIds |-> NoStoreOp]
    /\ jobs = <<>>

AllIdle == \A o \in OpIds : Idle(o)
StoreTranscript(o, attempt) == AllIdle /\ PersistBegin(o, attempt)

NextFinal ==
    \/ \E o \in OpIds, a \in Attempts : StoreTranscript(o, a)
    \/ \E o \in OpIds : PersistListed(o)
    \/ \E o \in OpIds : PersistUpserted(o)
    \/ \E o \in OpIds : PersistFlagged(o)

FinalSpec == InitFinal /\ [][NextFinal]_vars

\* C32: when the handling of a received message ends, on whatever path, the
\* message has been deleted from the queue, and exactly once.
C32_DeletedOnce ==
    [][(Handling /\ ~Handling') =>
           /\ msgs'[worker.m].state = "deleted"
           /\ msgs'[worker.m].deletes = 1]_vars

\* C33: every re-enqueued message carries the retry count of the message it
\* replaces plus one, no message in the queue has a retry count above
\* max_retries, and the job is processed at most max_retries + 1 times.
RECURSIVE TakenUpTo(_)
TakenUpTo(i) ==
    IF i = 0 THEN 0
    ELSE TakenUpTo(i - 1) + (IF msgs[i].parses THEN msgs[i].taken ELSE 0)
Processed == TakenUpTo(MaxQ)
C33_RetriesBounded ==
    /\ \A i \in 1..MaxQ :
          msgs[i].state # "none" =>
              /\ msgs[i].retry <= max_retries
              /\ msgs[i].of # 0 => msgs[i].retry = msgs[msgs[i].of].retry + 1
    /\ Processed <= max_retries + 1

\* C34: a failure whose status code is below 500 and is not 429 is recorded
\* with the retry count of the job unchanged and is never re-enqueued; a
\* failure with no status code, with a status of 500 or more, or with status
\* 429 is recorded with the retry count plus one.
NonRetryable(st) == st.known /\ st.code < 500 /\ st.code # 429
FailureRecorded ==
    \/ worker.pc \in {"rr_delete", "rr_send"}
    \/ worker.pc = "idle" /\ worker.exit \in {"gave_up", "requeued"}
C34_RetryClassification ==
    /\ FailureRecorded =>
          worker.recorded = IF NonRetryable(worker.status) THEN worker.retry
                            ELSE worker.retry + 1
    /\ (worker.pc = "rr_send" \/ worker.exit = "requeued") => ~NonRetryable(worker.status)
    /\ \A i \in 1..MaxQ : msgs[i].of # 0 => ~NonRetryable(msgs[i].why)

\* A job that was re-enqueued after a 429 has then failed with a 404: the
\* failure is recorded with the retry count it had, and the job is given up.
C34_Witness ==
    /\ worker.exit = "gave_up"
    /\ worker.status = StatusOf(404)
    /\ worker.retry = 1
    /\ worker.recorded = 1
    /\ msgs[worker.m].why = StatusOf(429)
    /\ msgs[worker.m].state = "deleted"

\* C35: the visibility delay of the r-th re-enqueue is
\* min(base_backoff_seconds * 2^(r-1), 3600): it is at most 3600 seconds and
\* not below the delay of the re-enqueue before it.
C35_DelayCappedMonotone ==
    backoff.r >= 1 =>
        /\ backoff.delay = Min(backoff.base * 2 ^ (backoff.r - 1), 3600)
        /\ backoff.delay <= 3600
        /\ backoff.r >= 2 => backoff.delay >= backoff.prev

\* With the default base the eighth delay has reached the ceiling, the
\* seventh had not.
C35_Witness ==
    /\ backoff.base = 30
    /\ backoff.r = 8
    /\ backoff.prev = 1920
    /\ backoff.delay = 3600

\* C36: the Twilio create call succeeds at most once for a job, whatever
\* the recording of the send result does.
C36_SentOnce == sms_sends <= 1

\* C37: for one transcript record at most one SMS job is enqueued by the
\* producers, however the persistence task of the relay and the textme
\* handler interleave.
JobsFor(a) == {j \in 1..Len(jobs) : jobs[j].attempt = a}
C37_OneJobPerRecord == \A a \in Attempts : Cardinality(JobsFor(a)) <= 1

\* C38: after store_transcript calls that ran one after another and have all
\* returned, exactly one row of the recording is marked IsFinal, and it is
\* the row of the highest attempt stored.
C38_OneFinal ==
    (AllIdle /\ Existing(table) # {}) =>
        \A v \in Attempts :
            table[v].IsFinal <=> (v \in Existing(table) /\ \A u \in Existing(table) : u <= v)

\* Attempt 1 was stored after attempt 2: the flag has stayed on attempt 2.
C38_Witness ==
    /\ AllIdle
    /\ table[1].exists /\ ~table[1].IsFinal
    /\ table[2].exists /\ table[2].IsFinal
    /\ \E o \in OpIds :
          /\ ops[o].ret = "stored"
          /\ ops[o].attempt = 1
          /\ ~ops[o].snap[1].exists
          /\ ops[o].snap[2].exists

\* C39: no step of store_transcript, mark_sms_enqueued,
\* record_sms_send_result or update_sms_status_by_sid turns the SmsSent or
\* the SmsQueued flag of a row from true to false (the write of
\* mark_sms_requested is left out).
RequestWrite == \E o \in OpIds : ops[o].pc = "write" /\ ops'[o].pc # "write"
C39_FlagsMonotone ==
    [][~RequestWrite =>
           \A a \in Attempts :
               /\ table[a].SmsSent => table'[a].SmsSent
               /\ table[a].SmsQueued => table'[a].SmsQueued]_vars

\* C40: build_sms_candidate returns a job exactly when the row exists, is
\* final and requested, is neither sent nor queued, and has a destination, a
\* sender and a transcript blob URL; otherwise it returns nothing; and it
\* never changes the table.
Ineligible(row) ==
    \/ ~row.exists
    \/ ~row.IsFinal
    \/ ~row.SmsRequested
    \/ row.SmsSent
    \/ row.SmsQueued
    \/ (row.SmsDestination = "" /\ row.ToNumber = "")
    \/ (row.SmsSender = "" /\ row.FromNumber = "")
    \/ row.TranscriptBlobUrl = ""
C40_CandidateOnlyWhenEligible ==
    [][\A o \in OpIds :
           (ops[o].pc = "build" /\ ops'[o].pc # "build") =>
               /\ table' = table
               /\ jobs' = jobs
               /\ ops'[o].ret \in {"candidate", "no_candidate"}
               /\ ops'[o].ret = "candidate" <=> ~Ineligible(table[ops[o].attempt])]_vars

\* One producer holds a job, and another was given none for a final,
\* requested row with no destination.
C40_Witness ==
    /\ \E o \in OpIds : ops[o].pc = "enqueue" /\ ops[o].ret = "candidate"
    /\ \E o \in OpIds :
          /\ ops[o].pc = "idle" /\ ops[o].ret = "no_candidate"
          /\ LET row == table[ops[o].attempt]
             IN /\ row.IsFinal /\ row.SmsRequested /\ ~row.SmsSent /\ ~row.SmsQueued
                /\ row.SmsDestination = ""

====
